---- MODULE Spec2Model ----
(***************************************************************************)
(* Resource lifecycle of the inference services.                           *)
(*                                                                         *)
(*   Spec      llm_service: load_model() / unload_model() called from      *)
(*             several threads, interleaved at each read or write of the   *)
(*             module-level `llm` and of `_load_lock`.                     *)
(*   SpecRetry llm_service: one caller, N_GPU_LAYERS from -1 to MaxLayers. *)
(*   SpecEnc   encoder_loading: load_encoder_with_fallbacks on every       *)
(*             configuration of sources and outcomes.                      *)
(*   SpecFlux  flux_service: load_pipeline() / unload_pipeline().          *)
(*   SpecLoras flux_service: load_multiple_loras() between loads and       *)
(*             unloads of the pipeline.                                    *)
(*   SpecVlm   vlm_service: /load, /unload and /compare requests handled   *)
(*             by one event loop.                                          *)
(*   SpecUnload     unload in llm_service, vlm_service and flux_service,   *)
(*                  one caller at a time.                                  *)
(*   SpecInference  one inference path at a time: /compare of vlm_service, *)
(*                  generate of the diffusion and of the video service.    *)
(*   SpecLoraCalls  flux_service: load_multiple_loras() on one pipeline.    *)
(*   SpecFluxGen    flux_service: /generate requests with and without      *)
(*                  loras.                                                 *)
(*   SpecAdapters   the lora loaders of flux_service and of the diffusion  *)
(*                  service.                                               *)
(*   SpecRemote     diffusion service: generate calls and requests to      *)
(*                  generate_endpoint, single and batch; video service:    *)
(*                  generate calls.                                        *)
(*   SpecFace       face_fixing: get_face_fixer() from several threads,    *)
(*                  fix_faces calls.                                       *)
(*   SpecVision     vision_service: /analyze, /load and /unload requests.  *)
(*   SpecRefiner    diffusion service with a custom SDXL model in          *)
(*                  models.json: generate calls and requests.              *)
(*   SpecFluxRequest flux_service: /generate requests with lora_scale,     *)
(*                  scheduler or fix_faces, with and without the legacy    *)
(*                  LoRA of FLUX_LORA_PATH.                                *)
(*   SpecAccumulate flux_service: /generate requests whose overlays all     *)
(*                  attach.                                                *)
(*   SpecFaceFix    fix_faces asked of /generate of flux_service and of    *)
(*                  the diffusion service.                                 *)
(***************************************************************************)
EXTENDS Integers, Sequences, FiniteSets, TLC

(* ---- bounds ---- *)
NumThreads == 2          \* concurrent callers of llm_service
MaxCalls == 5            \* calls of load_model/unload_model in one run
MaxLayers == 10          \* largest configured N_GPU_LAYERS explored
MaxChain == 3            \* longest fallback chain explored
MaxRequests == 3         \* requests to vlm_service in one run
ReloadThreshold == 1     \* inferences after which a model is due for reload
MaxGenerate == 3         \* generate calls to a Modal service in one run
MaxLoraEntries == 5      \* overlay entries load_multiple_loras calls name in one run
MaxGenEntries == 3       \* overlay entries /generate requests to flux carry in one run
MaxFaceCalls == 4        \* get_face_fixer and fix_faces calls in one run
MaxModalWork == 4        \* generate calls plus overlay entries the diffusion service is sent in one run
MaxStyleEntries == 5      \* overlay entries the /generate requests of the overlay-count runs carry
MaxRefinerWork == 3      \* generate calls plus overlay entries in a run with a custom model
MaxOptionRequests == 2   \* /generate requests with optional fields in one run
MaxAnalyze == 5          \* requests to vision_service in one run
MaxFaceWork == 2         \* generate calls plus overlay entries in a run that asks for face fixing

(* ---- program constants ---- *)
DefaultGpuLayers == 28   \* LLM_GPU_LAYERS default
LayerReduction == 8      \* N_GPU_LAYERS - 8 on the third attempt
FallbackScore == 50      \* calculate_clip_score: return 50.0
MinFallbackLayers == 1   \* max(1, ...)
FirstBackoff == 3        \* time.sleep(3.0)
SecondBackoff == 2       \* time.sleep(2.0)

Threads == 1..NumThreads

VARIABLES
    (* llm_service *)
    llm,            \* module global: 0 is None, otherwise the instance id
    lockHolder,     \* _load_lock: 0 is free, otherwise the owning thread
    nGpuLayers,     \* N_GPU_LAYERS
    llamaInstalled, \* whether `from llama_cpp import Llama` succeeds
    made,           \* number of Llama instances constructed so far
    closed,         \* ids of the instances on which close() has run
    pc,             \* per thread: position inside load_model/unload_model
    op,             \* per thread: the function of the current or last call
    attemptNo,      \* per thread: the attempt _try_load is in (1..3)
    lastError,      \* per thread: local last_error
    outcome,        \* per thread: "none", "returned" or "raised"
    ret,            \* per thread: returned value (instance id, 0 = None)
    retOpen,        \* per thread: returned instance was open at return
    retBool,        \* per thread: value returned by unload_model
    raisedErr,      \* per thread: the exception that left the call
    trace,          \* per thread: attempts, cleanups, sleeps of the call
    waitedOut,      \* per thread: the lock holder failed while it waited
    via,            \* per thread: how load_model left ("fast", "recheck", "built")
    calls,          \* calls started in this run
    unloadCalled,   \* some unload_model call has started
    (* encoder_loading *)
    encConfig,      \* the EncoderConfig and what each of its loaders will do
    encPhase,       \* "ready" before the call, "done" after it
    encResult,      \* what load_encoder_with_fallbacks returned, and its calls
    (* flux_service *)
    fluxModelSource,  \* MODEL_SOURCE: "local" or "huggingface"
    fluxCheckpoint,   \* the local checkpoint: "complete", "missing_components", "broken"
    fluxHubOK,        \* whether FluxPipeline.from_pretrained succeeds
    fluxEnv,          \* FLUX_VAE_PATH, FLUX_TEXT_ENCODER_PATH, FLUX_TEXT_ENCODER_2_PATH
    fluxLoraPath,     \* FLUX_LORA_PATH: "unset", "missing", "bad" or "good"
    fluxPipeline,     \* module global pipeline
    fluxCurrentLora,  \* module global current_lora
    fluxFaceFixer,    \* module global face_fixer is not None
    fluxFaceInfo,     \* last /generate response: fix_faces asked, image fixed, face_fixing
    fluxOptionBudget, \* requests with lora_scale, scheduler or fix_faces still admitted
    fluxOutcome,      \* last call: "none", "returned" or "raised"
    fluxUnloaded,     \* value returned by the last unload_pipeline ("none" before)
    fluxError,        \* the exception that left the last call
    fluxLog,          \* encoder loaders invoked by the last load_pipeline
    fluxRequireLocal, \* the last load_pipeline asked for local encoders only
    fluxCurrentLoras, \* module global current_loras
    fluxLoraRequest,  \* argument of the last load_multiple_loras call
    fluxLoraReturn,   \* what the last load_multiple_loras call returned
    fluxAdapterCalls, \* the set_adapters calls of the last load_multiple_loras
    fluxLoraBudget,   \* overlay entries load_multiple_loras calls may still name
    fluxGenerated,    \* what the last /generate request did
    fluxUnloadRun,    \* the last unload_pipeline calls since a load_pipeline call
    (* llm_service, observation *)
    unloadRun,        \* the last unload_model calls since a load_model call
    (* vlm_service *)
    vlmLlm,           \* module global llm: 0 is None, otherwise the instance id
    vlmChatHandler,   \* module global chat_handler: 0 is None, otherwise its id
    vlmMade,          \* number of Llama instances constructed so far
    vlmHandlers,      \* number of Llava15ChatHandler instances constructed
    vlmClosed,        \* ids of the instances on which close() has run
    vlmInstalled,     \* whether `from llama_cpp import Llama` succeeds
    vlmReq,           \* the requests received, in the order they arrived
    vlmQueue,         \* event loop: requests whose handler has not started
    vlmRunning,       \* event loop: the request whose handler runs (0: none)
    vlmTrace,         \* arrivals and inference calls begun and ended, in order
    vlmBudget,        \* requests this run admits
    vlmUnloadRun,     \* the last unload_model calls since a load_model call
    (* modal_diffusion_service.DiffusionService *)
    modalPipeline,    \* self.pipeline: "none" or the model it was built for
    modalCurrentModel,\* self.current_model
    modalCustomModels, \* self.custom_models: the names in models.json
    modalFaceFixer,   \* self.face_fixer: "none" or "get_face_fixer"
    modalFaceBudget,  \* generate calls with fix_faces this run still admits
    modalRefiner,     \* self.refiner_pipeline: "none" or what it was built from
    modalCurrentLoras,\* self.current_loras
    modalAdapters,    \* adapters attached to and active on self.pipeline
    modalPeak,        \* most pipelines the last _load_pipeline held at once
    modalLoraCall,    \* the last _load_loras call: request, outcome, return
    modalServed,      \* the last inference: model asked for, pipeline, refiner, face fixing
    modalRequest,     \* the last call: how it came in and the items it carried
    modalBatch,       \* items of the batch being served that are still to run
    modalTrace,       \* what the last generate call did, in order
    modalOutcome,     \* last call: "none", "returned", "raised" or "rejected"
    modalBudget,      \* generate calls and lora entries this run still admits
    (* wan_video_service.VideoGenerationService *)
    wanPipeline,      \* self.pipeline: "none" or the model it was built for
    wanCurrentModel,  \* self.current_model
    wanPeak,          \* most pipelines the last _load_pipeline held at once
    wanTrace,         \* what the last generate call did, in order
    wanOutcome,       \* last generate call: "none", "returned" or "raised"
    wanBudget,        \* generate calls this run still admits
    (* face_fixing *)
    faceInstance,     \* _face_fixer_instance: 0 (None) or the instance's number
    faceMade,         \* FaceFixingPipeline instances constructed so far
    facePc,           \* per caller: where it stands in get_face_fixer
    faceRet,          \* per caller: the instance its last call returned (0: none)
    faceModels,       \* detector, enhancer, upsampler the pipeline has loaded
    faceCall,         \* the last fix_faces call: arguments and what it returned
    faceBudget,       \* calls this run still admits
    (* vision_service *)
    clipModel,        \* clip_model is not None
    visionResponse,   \* the last request: endpoint, status, scores, log line
    visionBudget      \* requests this run still admits

llmVars == <<llm, lockHolder, nGpuLayers, llamaInstalled, made, closed, pc, op,
             attemptNo, lastError, outcome, ret, retOpen, retBool, raisedErr,
             trace, waitedOut, via, calls, unloadCalled, unloadRun>>

encVars == <<encConfig, encPhase, encResult>>

fluxVars == <<fluxModelSource, fluxCheckpoint, fluxHubOK, fluxEnv, fluxLoraPath,
              fluxPipeline, fluxCurrentLora, fluxOutcome, fluxUnloaded, fluxError,
              fluxLog, fluxRequireLocal, fluxCurrentLoras, fluxLoraRequest,
              fluxLoraReturn, fluxAdapterCalls, fluxLoraBudget, fluxGenerated,
              fluxUnloadRun, fluxFaceFixer, fluxFaceInfo, fluxOptionBudget>>

fluxRequestVars == <<fluxFaceFixer, fluxFaceInfo, fluxOptionBudget>>

fluxLoraVars == <<fluxCurrentLoras, fluxLoraRequest, fluxLoraReturn,
                  fluxAdapterCalls, fluxLoraBudget, fluxGenerated>>

vlmVars == <<vlmLlm, vlmChatHandler, vlmMade, vlmHandlers, vlmClosed,
             vlmInstalled, vlmReq, vlmQueue, vlmRunning, vlmTrace, vlmBudget,
             vlmUnloadRun>>

modalVars == <<modalPipeline, modalCurrentModel, modalCustomModels,
               modalFaceFixer, modalFaceBudget, modalRefiner,
               modalCurrentLoras, modalAdapters, modalPeak, modalLoraCall,
               modalServed, modalRequest, modalBatch, modalTrace, modalOutcome,
               modalBudget>>

wanVars == <<wanPipeline, wanCurrentModel, wanPeak, wanTrace, wanOutcome,
             wanBudget>>

faceVars == <<faceInstance, faceMade, facePc, faceRet, faceModels, faceCall,
              faceBudget>>

visionVars == <<clipModel, visionResponse, visionBudget>>

vars == <<llmVars, encVars, fluxVars, vlmVars, modalVars, wanVars, faceVars,
          visionVars>>

\* What each service leaves alone: the state of the other services.
notLLM == <<encVars, fluxVars, vlmVars, modalVars, wanVars, faceVars,
           visionVars>>
notEnc == <<llmVars, fluxVars, vlmVars, modalVars, wanVars, faceVars,
           visionVars>>
notFlux == <<llmVars, encVars, vlmVars, modalVars, wanVars, faceVars,
           visionVars>>
notVlm == <<llmVars, encVars, fluxVars, modalVars, wanVars, faceVars,
           visionVars>>
notModal == <<llmVars, encVars, fluxVars, vlmVars, wanVars, faceVars,
           visionVars>>
notWan == <<llmVars, encVars, fluxVars, vlmVars, modalVars, faceVars,
           visionVars>>
notFace == <<llmVars, encVars, fluxVars, vlmVars, modalVars, wanVars,
            visionVars>>
notVision == <<llmVars, encVars, fluxVars, vlmVars, modalVars, wanVars,
              faceVars>>

(* ---- helpers ---- *)
Max(a, b) == IF a >= b THEN a ELSE b
Min(a, b) == IF a <= b THEN a ELSE b
Range(seq) == {seq[i] : i \in 1..Len(seq)}

NoError == [who |-> 0, n |-> 0, kind |-> "none", ctx |-> <<>>]

\* An exception raised by attempt n of thread t.  ctx is the chain of
\* __context__: the attempts whose handlers were active when it was raised.
AttemptError(t, n, kind, ctx) == [who |-> t, n |-> n, kind |-> kind, ctx |-> ctx]

\* One link of an exception chain: which attempt raised it, and what.
Link(e) == [n |-> e.n, kind |-> e.kind]

\* is_memory_error: the message matches one of the exhaustion signatures.
IsMemoryError(e) == e.kind = "mem"

\* fallback_layers = max(1, N_GPU_LAYERS - 8)
FallbackLayers(n) == Max(MinFallbackLayers, n - LayerReduction)

\* What load_model does, in order: one record per _try_load call, per
\* exception it raised, per _cuda_cleanup() and per time.sleep().
Event(ev, arg, kind) == [ev |-> ev, arg |-> arg, kind |-> kind]
Attempt(layers) == Event("attempt", layers, "-")
Failed(n, kind) == Event("failed", n, kind)
Built(id) == Event("built", id, "-")
Cleanup == Event("cleanup", 0, "-")
Sleep(s) == Event("sleep", s, "-")

Live == (1..made) \ closed
Constructing == {t \in Threads : pc[t] = "l_in"}

(* ---- unload calls, as their callers see them ---- *)

\* One finished unload call: whether the slot held a model when the call
\* began, what it returned ("true", "false") or that it raised ("raised"),
\* and whether the slot held a model when the call ended.
UnloadEntry(was, answer, after) ==
    [was |-> was, ret |-> answer, after |-> after]

\* The unload calls made in a row, with no load call in between: the last
\* two of them.
KeepLastTwo(run, e) == IF Len(run) < 2 THEN Append(run, e) ELSE <<run[2], e>>

\* llm_service: what each thread's running unload_model call found when it
\* began ("none" when it runs none), and the finished calls of the row.
NoUnloadRun == [pending |-> [t \in Threads |-> "none"], done |-> <<>>]

\* Thread t's unload_model call ends with answer; loadedAfter tells whether the
\* slot holds a model at that moment.
FinishUnload(t, answer, loadedAfter) ==
    [pending |-> [unloadRun.pending EXCEPT ![t] = "none"],
     done |-> KeepLastTwo(unloadRun.done,
                 UnloadEntry(unloadRun.pending[t] = "loaded", answer, loadedAfter))]

(* ---- llm_service.load_model ---- *)

LLMAtRest ==
    /\ llm = 0
    /\ lockHolder = 0
    /\ llamaInstalled \in BOOLEAN
    /\ made = 0
    /\ closed = {}
    /\ pc = [t \in Threads |-> "idle"]
    /\ op = [t \in Threads |-> "none"]
    /\ attemptNo = [t \in Threads |-> 0]
    /\ lastError = [t \in Threads |-> NoError]
    /\ outcome = [t \in Threads |-> "none"]
    /\ ret = [t \in Threads |-> 0]
    /\ retOpen = [t \in Threads |-> FALSE]
    /\ retBool = [t \in Threads |-> FALSE]
    /\ raisedErr = [t \in Threads |-> NoError]
    /\ trace = [t \in Threads |-> <<>>]
    /\ waitedOut = [t \in Threads |-> FALSE]
    /\ via = [t \in Threads |-> "none"]
    /\ unloadCalled = FALSE
    /\ unloadRun = NoUnloadRun

InitLLM == LLMAtRest /\ calls = 0

\* A thread enters load_model() or unload_model().
BeginCall(t, f) ==
    /\ op' = [op EXCEPT ![t] = f]
    /\ attemptNo' = [attemptNo EXCEPT ![t] = 0]
    /\ lastError' = [lastError EXCEPT ![t] = NoError]
    /\ outcome' = [outcome EXCEPT ![t] = "none"]
    /\ ret' = [ret EXCEPT ![t] = 0]
    /\ retOpen' = [retOpen EXCEPT ![t] = FALSE]
    /\ retBool' = [retBool EXCEPT ![t] = FALSE]
    /\ raisedErr' = [raisedErr EXCEPT ![t] = NoError]
    /\ trace' = [trace EXCEPT ![t] = <<>>]
    /\ waitedOut' = [waitedOut EXCEPT ![t] = FALSE]
    /\ via' = [via EXCEPT ![t] = "none"]
    /\ calls' = calls + 1

CallLoad(t) ==
    /\ pc[t] = "idle"
    /\ calls < MaxCalls
    /\ BeginCall(t, "load")
    /\ pc' = [pc EXCEPT ![t] = "l_fast"]
    /\ UNCHANGED <<llm, lockHolder, nGpuLayers, llamaInstalled, made, closed,
                   unloadCalled>>
    /\ unloadRun' = [unloadRun EXCEPT !.done = <<>>]
    /\ UNCHANGED notLLM

\* return llm: the global is read at the moment of the return.
ReturnLlm(t, how) ==
    /\ via' = [via EXCEPT ![t] = how]
    /\ outcome' = [outcome EXCEPT ![t] = "returned"]
    /\ ret' = [ret EXCEPT ![t] = llm]
    /\ retOpen' = [retOpen EXCEPT ![t] = (llm \in Live)]
    /\ pc' = [pc EXCEPT ![t] = "idle"]

\* An exception that leaves load_model without releasing _load_lock.
RaiseKeepsLock(t, e) ==
    /\ outcome' = [outcome EXCEPT ![t] = "raised"]
    /\ raisedErr' = [raisedErr EXCEPT ![t] = e]
    /\ lockHolder' = lockHolder
    /\ waitedOut' = waitedOut
    /\ pc' = [pc EXCEPT ![t] = "idle"]

\* An exception leaves load_model from inside `with _load_lock`: the lock
\* is released, and the threads waiting for it are noted.
RaiseLocked(t, e) ==
    /\ outcome' = [outcome EXCEPT ![t] = "raised"]
    /\ raisedErr' = [raisedErr EXCEPT ![t] = e]
    /\ lockHolder' = 0
    /\ waitedOut' = [u \in Threads |->
                        IF u # t /\ pc[u] = "l_acquire" /\ e.n > 0
                        THEN TRUE ELSE waitedOut[u]]
    /\ pc' = [pc EXCEPT ![t] = "idle"]

\* Fast path: if llm is not None: return llm     (no lock taken)
LoadFastPath(t) ==
    /\ pc[t] = "l_fast"
    /\ IF llm # 0
       THEN /\ ReturnLlm(t, "fast")
       ELSE /\ pc' = [pc EXCEPT ![t] = "l_acquire"]
            /\ UNCHANGED <<outcome, ret, retOpen, via>>
    /\ UNCHANGED <<llm, lockHolder, nGpuLayers, llamaInstalled, made, closed,
                   op, attemptNo, lastError, retBool, raisedErr, trace,
                   waitedOut, calls, unloadCalled>>
    /\ UNCHANGED unloadRun
    /\ UNCHANGED notLLM

\* with _load_lock:
LoadAcquire(t) ==
    /\ pc[t] = "l_acquire"
    /\ lockHolder = 0
    /\ lockHolder' = t
    /\ pc' = [pc EXCEPT ![t] = "l_recheck"]
    /\ UNCHANGED <<llm, nGpuLayers, llamaInstalled, made, closed, op,
                   attemptNo, lastError, outcome, ret, retOpen, retBool,
                   raisedErr, trace, waitedOut, calls, unloadCalled,
                   via>>
    /\ UNCHANGED unloadRun
    /\ UNCHANGED notLLM

\* load_model without the re-check inside the lock.
LoadRecheckBlind(t) ==
    /\ pc[t] = "l_recheck"
    /\ lockHolder = t
    /\ attemptNo' = [attemptNo EXCEPT ![t] = 1]
    /\ trace' = [trace EXCEPT ![t] = Append(@, Attempt(nGpuLayers))]
    /\ pc' = [pc EXCEPT ![t] = "l_in"]
    /\ UNCHANGED <<llm, lockHolder, nGpuLayers, llamaInstalled, made, closed,
                   op, lastError, outcome, ret, retOpen, retBool, raisedErr,
                   waitedOut, via, calls, unloadCalled>>
    /\ UNCHANGED unloadRun
    /\ UNCHANGED notLLM

\* load_model handing the failure of the previous lock holder to a waiter.
LoadRecheckSharedFailure(t) ==
    /\ pc[t] = "l_recheck"
    /\ lockHolder = t
    /\ LET failedBefore == {u \in Threads \ {t} :
                                outcome[u] = "raised" /\ raisedErr[u].n > 0}
       IN IF llm # 0
          THEN /\ ReturnLlm(t, "recheck")
               /\ lockHolder' = 0
               /\ UNCHANGED <<attemptNo, raisedErr, trace, waitedOut>>
          ELSE IF waitedOut[t] /\ failedBefore # {}
          THEN /\ RaiseLocked(t, raisedErr[CHOOSE u \in failedBefore : TRUE])
               /\ UNCHANGED <<attemptNo, ret, retOpen, trace, via>>
          ELSE /\ attemptNo' = [attemptNo EXCEPT ![t] = 1]
               /\ trace' = [trace EXCEPT ![t] = Append(@, Attempt(nGpuLayers))]
               /\ pc' = [pc EXCEPT ![t] = "l_in"]
               /\ UNCHANGED <<lockHolder, outcome, ret, retOpen, raisedErr,
                              waitedOut, via>>
    /\ UNCHANGED <<llm, nGpuLayers, llamaInstalled, made, closed, op,
                   lastError, retBool, calls, unloadCalled>>
    /\ UNCHANGED unloadRun
    /\ UNCHANGED notLLM

\* Re-check inside the lock; then the import check; then attempt 1 starts.
LoadRecheck(t) ==
    /\ pc[t] = "l_recheck"
    /\ lockHolder = t
    /\ IF llm # 0
       THEN /\ ReturnLlm(t, "recheck")
            /\ lockHolder' = 0
            /\ UNCHANGED <<attemptNo, raisedErr, trace, waitedOut>>
       ELSE IF ~llamaInstalled
       THEN /\ RaiseLocked(t, [who |-> t, n |-> 0, kind |-> "import", ctx |-> <<>>])
            /\ UNCHANGED <<attemptNo, ret, retOpen, trace, via>>
       ELSE /\ attemptNo' = [attemptNo EXCEPT ![t] = 1]
            /\ trace' = [trace EXCEPT ![t] = Append(@, Attempt(nGpuLayers))]
            /\ pc' = [pc EXCEPT ![t] = "l_in"]
            /\ UNCHANGED <<lockHolder, outcome, ret, retOpen, raisedErr,
                           waitedOut, via>>
    /\ UNCHANGED <<llm, nGpuLayers, llamaInstalled, made, closed, op,
                   lastError, retBool, calls, unloadCalled>>
    /\ UNCHANGED unloadRun
    /\ UNCHANGED notLLM

\* _try_load returns a new Llama: llm = _try_load(...); last_error = None
TryLoadSucceeds(t) ==
    /\ pc[t] = "l_in"
    /\ made' = made + 1
    /\ llm' = made + 1
    /\ lastError' = [lastError EXCEPT ![t] = NoError]
    /\ trace' = [trace EXCEPT ![t] = Append(@, Built(made + 1))]
    /\ pc' = [pc EXCEPT ![t] = "l_post"]
    /\ UNCHANGED <<lockHolder, nGpuLayers, llamaInstalled, closed, op,
                   attemptNo, outcome, ret, retOpen, retBool, raisedErr,
                   waitedOut, calls, unloadCalled,
                   via>>
    /\ UNCHANGED unloadRun
    /\ UNCHANGED notLLM

\* The retry ladder without the cleanup before the third attempt.
AfterFailureSkipsCleanup(t, n, e) ==
    IF n = 1 /\ ~IsMemoryError(e)
    THEN /\ RaiseLocked(t, e)
         /\ trace' = [trace EXCEPT ![t] = Append(@, Failed(n, e.kind))]
         /\ UNCHANGED attemptNo
    ELSE IF n = 1
    THEN /\ attemptNo' = [attemptNo EXCEPT ![t] = 2]
         /\ trace' = [trace EXCEPT ![t] =
                @ \o <<Failed(n, e.kind), Cleanup, Sleep(FirstBackoff),
                       Attempt(nGpuLayers)>>]
         /\ UNCHANGED <<pc, lockHolder, outcome, raisedErr, waitedOut>>
    ELSE IF n = 2
    THEN /\ attemptNo' = [attemptNo EXCEPT ![t] = 3]
         /\ trace' = [trace EXCEPT ![t] =
                @ \o <<Failed(n, e.kind), Sleep(SecondBackoff),
                       Attempt(FallbackLayers(nGpuLayers))>>]
         /\ UNCHANGED <<pc, lockHolder, outcome, raisedErr, waitedOut>>
    ELSE /\ RaiseLocked(t, e)
         /\ trace' = [trace EXCEPT ![t] = Append(@, Failed(n, e.kind))]
         /\ UNCHANGED attemptNo

\* What follows a failed attempt n whose exception is e.
AfterFailure(t, n, e) ==
    IF n = 1 /\ ~IsMemoryError(e)
    THEN \* raise  (not a memory/GPU issue - don't retry)
         /\ RaiseLocked(t, e)
         /\ trace' = [trace EXCEPT ![t] = Append(@, Failed(n, e.kind))]
         /\ UNCHANGED attemptNo
    ELSE IF n = 1
    THEN \* _cuda_cleanup(); time.sleep(3.0); attempt 2 at N_GPU_LAYERS
         /\ attemptNo' = [attemptNo EXCEPT ![t] = 2]
         /\ trace' = [trace EXCEPT ![t] =
                @ \o <<Failed(n, e.kind), Cleanup, Sleep(FirstBackoff),
                       Attempt(nGpuLayers)>>]
         /\ UNCHANGED <<pc, lockHolder, outcome, raisedErr, waitedOut>>
    ELSE IF n = 2
    THEN \* fallback_layers; _cuda_cleanup(); time.sleep(2.0); attempt 3
         /\ attemptNo' = [attemptNo EXCEPT ![t] = 3]
         /\ trace' = [trace EXCEPT ![t] =
                @ \o <<Failed(n, e.kind), Cleanup, Sleep(SecondBackoff),
                       Attempt(FallbackLayers(nGpuLayers))>>]
         /\ UNCHANGED <<pc, lockHolder, outcome, raisedErr, waitedOut>>
    ELSE \* if last_error is not None: raise last_error
         /\ RaiseLocked(t, e)
         /\ trace' = [trace EXCEPT ![t] = Append(@, Failed(n, e.kind))]
         /\ UNCHANGED attemptNo

\* Exceptions raised with no chain to the ones handled before them.
ContextDetached(t, n) == <<>>

\* The exception chain of an exception raised by attempt n: attempts 2 and
\* 3 run inside the except blocks of the attempts before them.
ContextOf(t, n) ==
    IF n = 1 THEN <<>> ELSE <<Link(lastError[t])>> \o lastError[t].ctx

\* _try_load raises.
TryLoadFails(t) ==
    /\ pc[t] = "l_in"
    /\ \E kind \in {"mem", "other"} :
          LET e == AttemptError(t, attemptNo[t], kind, ContextOf(t, attemptNo[t]))
          IN /\ lastError' = [lastError EXCEPT ![t] = e]
             /\ AfterFailure(t, attemptNo[t], e)
    /\ UNCHANGED <<llm, nGpuLayers, llamaInstalled, made, closed, op, ret,
                   retOpen, retBool, calls, unloadCalled,
                   via>>
    /\ UNCHANGED unloadRun
    /\ UNCHANGED notLLM

\* last_error is None; meta = getattr(llm, 'metadata', {}) or {}
LoadReadMeta(t) ==
    /\ pc[t] = "l_post"
    /\ pc' = [pc EXCEPT ![t] = "l_ret"]
    /\ UNCHANGED <<llm, lockHolder, nGpuLayers, llamaInstalled, made, closed,
                   op, attemptNo, lastError, outcome, ret, retOpen, retBool,
                   raisedErr, trace, waitedOut, calls, unloadCalled,
                   via>>
    /\ UNCHANGED unloadRun
    /\ UNCHANGED notLLM

\* return llm  (and the with-block releases the lock)
LoadReturn(t) ==
    /\ pc[t] = "l_ret"
    /\ ReturnLlm(t, "built")
    /\ lockHolder' = 0
    /\ UNCHANGED <<llm, nGpuLayers, llamaInstalled, made, closed, op,
                   attemptNo, lastError, retBool, raisedErr, trace, waitedOut,
                   calls, unloadCalled>>
    /\ UNCHANGED unloadRun
    /\ UNCHANGED notLLM

(* ---- llm_service.unload_model ---- *)

CallUnload(t) ==
    /\ pc[t] = "idle"
    /\ calls < MaxCalls
    /\ BeginCall(t, "unload")
    /\ pc' = [pc EXCEPT ![t] = "u_check"]
    /\ unloadCalled' = TRUE
    /\ UNCHANGED <<llm, lockHolder, nGpuLayers, llamaInstalled, made, closed>>
    /\ unloadRun' = [unloadRun EXCEPT !.pending[t] =
                        IF llm # 0 THEN "loaded" ELSE "empty"]
    /\ UNCHANGED notLLM

\* if llm is not None:  ... else return False
UnloadCheck(t) ==
    /\ pc[t] = "u_check"
    /\ IF llm # 0
       THEN /\ pc' = [pc EXCEPT ![t] = "u_close"]
            /\ UNCHANGED <<outcome, retBool, unloadRun>>
       ELSE /\ outcome' = [outcome EXCEPT ![t] = "returned"]
            /\ retBool' = [retBool EXCEPT ![t] = FALSE]
            /\ pc' = [pc EXCEPT ![t] = "idle"]
            /\ unloadRun' = FinishUnload(t, "false", llm # 0)
    /\ UNCHANGED <<llm, lockHolder, nGpuLayers, llamaInstalled, made, closed,
                   op, attemptNo, lastError, ret, retOpen, raisedErr, trace,
                   waitedOut, calls, unloadCalled,
                   via>>
    /\ UNCHANGED notLLM

\* llm.close(): the global is read again; None has no close().
UnloadClose(t) ==
    /\ pc[t] = "u_close"
    /\ IF llm # 0
       THEN /\ closed' = closed \cup {llm}
            /\ pc' = [pc EXCEPT ![t] = "u_clear"]
            /\ UNCHANGED <<outcome, raisedErr, unloadRun>>
       ELSE /\ outcome' = [outcome EXCEPT ![t] = "raised"]
            /\ raisedErr' = [raisedErr EXCEPT ![t] =
                    [who |-> t, n |-> 0, kind |-> "attr", ctx |-> <<>>]]
            /\ pc' = [pc EXCEPT ![t] = "idle"]
            /\ unloadRun' = FinishUnload(t, "raised", llm # 0)
            /\ UNCHANGED closed
    /\ UNCHANGED <<llm, lockHolder, nGpuLayers, llamaInstalled, made, op,
                   attemptNo, lastError, ret, retOpen, retBool, trace,
                   waitedOut, calls, unloadCalled,
                   via>>
    /\ UNCHANGED notLLM

\* llm = None; gc.collect() ...; return True
UnloadClear(t) ==
    /\ pc[t] = "u_clear"
    /\ llm' = 0
    /\ outcome' = [outcome EXCEPT ![t] = "returned"]
    /\ retBool' = [retBool EXCEPT ![t] = TRUE]
    /\ pc' = [pc EXCEPT ![t] = "idle"]
    /\ UNCHANGED <<lockHolder, nGpuLayers, llamaInstalled, made, closed, op,
                   attemptNo, lastError, ret, retOpen, raisedErr, trace,
                   waitedOut, calls, unloadCalled,
                   via>>
    /\ unloadRun' = FinishUnload(t, "true", llm' # 0)
    /\ UNCHANGED notLLM

NextLLM ==
    \E t \in Threads :
        \/ CallLoad(t)
        \/ LoadFastPath(t)
        \/ LoadAcquire(t)
        \/ LoadRecheck(t)
        \/ TryLoadSucceeds(t)
        \/ TryLoadFails(t)
        \/ LoadReadMeta(t)
        \/ LoadReturn(t)
        \/ CallUnload(t)
        \/ UnloadCheck(t)
        \/ UnloadClose(t)
        \/ UnloadClear(t)

(* ---- encoder_loading.load_encoder_with_fallbacks ---- *)

\* An encoder: the source it was loaded from (0 the local path, i the i-th
\* fallback) and whether it went through the dtype converter.
NoEncoder == [src |-> -1, converted |-> FALSE]
EncoderFrom(src) == [src |-> src, converted |-> FALSE]
Converted(enc) == [enc EXCEPT !.converted = TRUE]

\* EncoderConfig, with the behaviour of its callables:
\*   path   "unset" (env_var_path is None), "missing" (the path does not
\*          exist), "bad" (local_loader raises) or "good" (it loads);
\*   conv   "none" (no dtype_converter), "ok" or "raises";
\*   chain  for each fallback loader in order, whether it succeeds.
EncoderConfigs(chains) ==
    [path : {"unset", "missing", "bad", "good"},
     conv : {"none", "ok", "raises"},
     chain : chains]

RECURSIVE BoolSeqs(_)
BoolSeqs(n) ==
    IF n = 0 THEN {<<>>}
    ELSE LET shorter == BoolSeqs(n - 1)
         IN shorter \cup {Append(c, b) : c \in {x \in shorter : Len(x) = n - 1},
                                          b \in BOOLEAN}

\* A call's result: the value returned, the loaders invoked in order, the
\* failure lines printed in order, and the exception that leaves the call.
\* Both try blocks catch Exception and every path ends in `return encoder`,
\* so nothing leaves the call.
NoEncError == "none"
EncResult(encoder, log, printed) ==
    [encoder |-> encoder, log |-> log, printed |-> printed,
     raised |-> NoEncError]

\* print(f'Failed to load local {name}: {e}'): the local source (0) with the
\* exception's message.
LocalFailureLine == [src |-> 0, reason |-> "message"]

\* A failure line that names every fallback entry with its message.
FallbackFailureLineNamesAll(chain, i) == [src |-> i, reason |-> "message"]

\* except Exception as e: a fallback entry that is not the last prints its
\* ordinal and type(e).__name__; the last prints 'All fallbacks exhausted',
\* which names no entry and no reason.
FallbackFailureLine(chain, i) ==
    IF i < Len(chain)
    THEN [src |-> i, reason |-> "class"]
    ELSE [src |-> -1, reason |-> "none"]

\* The loop over config.fallback_chain without its early return: every
\* entry is invoked and the last one that succeeded is returned.
RECURSIVE TryFallbacksKeepsGoing(_, _, _, _, _)
TryFallbacksKeepsGoing(chain, i, encoder, log, printed) ==
    IF i > Len(chain)
    THEN EncResult(encoder, log, printed)
    ELSE TryFallbacksKeepsGoing(chain, i + 1,
            IF chain[i] THEN EncoderFrom(i) ELSE encoder, Append(log, i),
            IF chain[i] THEN printed
            ELSE Append(printed, FallbackFailureLine(chain, i)))

\* The loop over config.fallback_chain ending, as load_vae_with_fallback
\* does, in an exception when nothing was loaded.
RECURSIVE TryFallbacksRaisesWhenExhausted(_, _, _, _, _)
TryFallbacksRaisesWhenExhausted(chain, i, encoder, log, printed) ==
    IF i > Len(chain)
    THEN [EncResult(encoder, log, printed) EXCEPT
            !.raised = IF encoder = NoEncoder THEN "exhausted" ELSE NoEncError]
    ELSE IF chain[i]
    THEN EncResult(EncoderFrom(i), Append(log, i), printed)
    ELSE TryFallbacksRaisesWhenExhausted(chain, i + 1, encoder, Append(log, i),
            Append(printed, FallbackFailureLine(chain, i)))

\* for i, fallback_loader in enumerate(config.fallback_chain): try: encoder =
\* fallback_loader(); return encoder; except: print, next.  After the loop:
\* return encoder.
RECURSIVE TryFallbacks(_, _, _, _, _)
TryFallbacks(chain, i, encoder, log, printed) ==
    IF i > Len(chain)
    THEN EncResult(encoder, log, printed)
    ELSE IF chain[i]
    THEN EncResult(EncoderFrom(i), Append(log, i), printed)
    ELSE TryFallbacks(chain, i + 1, encoder, Append(log, i),
            Append(printed, FallbackFailureLine(chain, i)))

\* load_encoder_with_fallbacks(config, torch_dtype)
LoadEncoderWithFallbacks(config) ==
    IF config.path = "unset"
    THEN TryFallbacks(config.chain, 1, NoEncoder, <<>>, <<>>)
    ELSE IF config.path = "missing"
    THEN \* FileNotFoundError before local_loader is called; caught
         TryFallbacks(config.chain, 1, NoEncoder, <<>>, <<LocalFailureLine>>)
    ELSE IF config.path = "bad"
    THEN \* local_loader raises; caught
         TryFallbacks(config.chain, 1, NoEncoder, <<0>>, <<LocalFailureLine>>)
    ELSE IF config.conv = "none"
    THEN EncResult(EncoderFrom(0), <<0>>, <<>>)
    ELSE IF config.conv = "ok"
    THEN EncResult(Converted(EncoderFrom(0)), <<0>>, <<>>)
    ELSE \* dtype_converter raises after encoder was assigned; caught
         TryFallbacks(config.chain, 1, EncoderFrom(0), <<0>>,
                      <<LocalFailureLine>>)

IdleEnc ==
    /\ encConfig = [path |-> "unset", conv |-> "none", chain |-> <<>>]
    /\ encPhase = "idle"
    /\ encResult = EncResult(NoEncoder, <<>>, <<>>)

InitEnc ==
    /\ encConfig \in EncoderConfigs(BoolSeqs(MaxChain))
    /\ encPhase = "ready"
    /\ encResult = EncResult(NoEncoder, <<>>, <<>>)

CallLoadEncoder ==
    /\ encPhase = "ready"
    /\ encResult' = LoadEncoderWithFallbacks(encConfig)
    /\ encPhase' = "done"
    /\ UNCHANGED encConfig
    /\ UNCHANGED notEnc

(* ---- encoder_loading.load_vae_with_fallback / load_text_encoders ---- *)

PathStates == {"unset", "missing", "bad", "good"}
BoolSeqsOfLen(n) == {c \in BoolSeqs(n) : Len(c) = n}

\* An exception: its type and the sources its message names.
FluxError(type, names) == [type |-> type, names |-> names]
NoFluxError == FluxError("none", {})

\* The outcome of a component load: ok, the exception otherwise, and the
\* loaders invoked as <<component, source>>.
Tagged(component, log) == [i \in 1..Len(log) |-> <<component, log[i]>>]
ComponentResult(ok, error, log) == [ok |-> ok, error |-> error, log |-> log]

\* Keyword parameters the two functions accept (def line of each).
LoadVaeWithFallbackParams == {"torch_dtype"}
LoadTextEncodersParams == {"torch_dtype"}

\* A Python call: a keyword the function does not declare is a TypeError
\* raised before the body runs.
CallWithKeywords(params, keywords, body) ==
    IF keywords \subseteq params
    THEN body
    ELSE ComponentResult(FALSE, FluxError("TypeError", {}), <<>>)

\* create_vae_fallback_loaders: one entry; create_clip_fallback_loaders and
\* create_t5_fallback_loaders: two entries each.
VaeChainLen == 1
ClipChainLen == 2
T5ChainLen == 2

\* load_vae_with_fallback(torch_dtype)
LoadVaeWithFallback(path, chain) ==
    LET r == LoadEncoderWithFallbacks([path |-> path, conv |-> "none", chain |-> chain])
    IN IF r.encoder = NoEncoder
       THEN ComponentResult(FALSE, FluxError("Exception", {}), Tagged("vae", r.log))
       ELSE ComponentResult(TRUE, NoFluxError, Tagged("vae", r.log))

\* load_text_encoders(torch_dtype): both encoders are loaded, then checked.
LoadTextEncoders(clipPath, clipChain, t5Path, t5Conv, t5Chain) ==
    LET c == LoadEncoderWithFallbacks([path |-> clipPath, conv |-> "none", chain |-> clipChain])
        t == LoadEncoderWithFallbacks([path |-> t5Path, conv |-> t5Conv, chain |-> t5Chain])
        log == Tagged("clip", c.log) \o Tagged("t5", t.log)
    IN IF c.encoder = NoEncoder \/ t.encoder = NoEncoder
       THEN ComponentResult(FALSE, FluxError("Exception", {}), log)
       ELSE ComponentResult(TRUE, NoFluxError, log)

(* ---- flux_service.load_pipeline / unload_pipeline ---- *)

LoraDefaultScale == 10   \* LORA_DEFAULT_SCALE, in tenths

\* pipe.scheduler of a pipeline as from_pretrained builds it
OwnScheduler == "FlowMatchEulerDiscreteScheduler"
NoPipeline == [up |-> FALSE, attached |-> {}, active |-> {}, scheduler |-> "none"]
FreshPipeline ==
    [up |-> TRUE, attached |-> {}, active |-> {}, scheduler |-> OwnScheduler]
NoLora == [path |-> "unset", scale |-> LoraDefaultScale, loaded |-> FALSE]

\* load_lora_weights(FLUX_LORA_PATH, LORA_DEFAULT_SCALE) on a fresh pipeline,
\* inside load_pipeline's try/except: what is left of pipeline, current_lora.
AutoLoadLora(pipe, lora, path) ==
    IF path = "unset" THEN [pipe |-> pipe, lora |-> lora]
    ELSE IF path = "missing"
    THEN \* FileNotFoundError before the try block
         [pipe |-> pipe, lora |-> lora]
    ELSE IF path = "bad"
    THEN \* pipeline.load_lora_weights raises: current_lora['loaded'] = False
         [pipe |-> pipe, lora |-> [lora EXCEPT !.loaded = FALSE]]
    ELSE [pipe |-> [pipe EXCEPT !.attached = {"default"},
                                !.active = {<<"default", LoraDefaultScale>>}],
          lora |-> [path |-> path, scale |-> LoraDefaultScale, loaded |-> TRUE]]

\* current_loras = [], no load_multiple_loras and no unload_pipeline call yet
LoraReturn(how, entries) == [outcome |-> how, entries |-> entries]

NoFaceInfo == [present |-> FALSE, applied |-> FALSE, error |-> "none"]
FaceInfo(applied, error) == [present |-> TRUE, applied |-> applied, error |-> error]
\* What a response tells about face fixing: whether the request asked for
\* it, whether the image returned is the fixed one, and the face_fixing
\* metadata.
FaceOutcome(asked, fixed, info) == [asked |-> asked, fixed |-> fixed, info |-> info]
NoFaceOutcome == FaceOutcome(FALSE, FALSE, NoFaceInfo)

FluxLorasAtRest ==
    /\ fluxFaceFixer = FALSE
    /\ fluxFaceInfo = NoFaceOutcome
    /\ fluxCurrentLoras = <<>>
    /\ fluxLoraRequest = <<>>
    /\ fluxLoraReturn = LoraReturn("none", <<>>)
    /\ fluxAdapterCalls = <<>>
    /\ fluxGenerated = [outcome |-> "none", loras |-> <<>>, active |-> {}]
    /\ fluxUnloadRun = <<>>

IdleFlux ==
    /\ fluxModelSource = "huggingface"
    /\ fluxCheckpoint = "complete"
    /\ fluxHubOK = TRUE
    /\ fluxEnv = [vae |-> "unset", clip |-> "unset", t5 |-> "unset"]
    /\ fluxLoraPath = "unset"
    /\ fluxPipeline = NoPipeline
    /\ fluxCurrentLora = NoLora
    /\ fluxOutcome = "none"
    /\ fluxUnloaded = "none"
    /\ fluxError = NoFluxError
    /\ fluxLog = <<>>
    /\ fluxRequireLocal = FALSE
    /\ FluxLorasAtRest
    /\ fluxLoraBudget = 0
    /\ fluxOptionBudget = 0

InitFlux ==
    /\ fluxModelSource \in {"local", "huggingface"}
    /\ fluxCheckpoint \in {"complete", "missing_components", "broken"}
    /\ fluxHubOK \in BOOLEAN
    /\ fluxEnv \in [vae : PathStates, clip : PathStates, t5 : PathStates]
    /\ fluxLoraPath \in PathStates
    /\ fluxPipeline = NoPipeline
    /\ fluxCurrentLora = NoLora
    /\ fluxOutcome = "none"
    /\ fluxUnloaded = "none"
    /\ fluxError = NoFluxError
    /\ fluxLog = <<>>
    /\ fluxRequireLocal = FALSE
    /\ FluxLorasAtRest
    /\ fluxLoraBudget = 0
    /\ fluxOptionBudget = 0

FluxLoaded(pipe, log, requireLocal) ==
    LET after == AutoLoadLora(pipe, fluxCurrentLora, fluxLoraPath)
    IN /\ fluxPipeline' = after.pipe
       /\ fluxCurrentLora' = after.lora
       /\ fluxOutcome' = "returned"
       /\ fluxError' = NoFluxError
       /\ fluxLog' = log
       /\ fluxRequireLocal' = requireLocal

FluxRaised(error, log, requireLocal) ==
    /\ fluxOutcome' = "raised"
    /\ fluxError' = error
    /\ fluxLog' = log
    /\ fluxRequireLocal' = requireLocal
    /\ UNCHANGED <<fluxPipeline, fluxCurrentLora>>

\* load_pipeline()
FluxLoadPipeline ==
    /\ IF fluxPipeline.up
       THEN /\ fluxOutcome' = "returned"
            /\ fluxError' = NoFluxError
            /\ UNCHANGED <<fluxPipeline, fluxCurrentLora, fluxLog, fluxRequireLocal>>
       ELSE IF fluxModelSource = "huggingface"
       THEN IF fluxHubOK
            THEN FluxLoaded(FreshPipeline, <<>>, FALSE)
            ELSE FluxRaised(FluxError("HubError", {"hub"}), <<>>, FALSE)
       ELSE IF fluxCheckpoint = "complete"
       THEN FluxLoaded(FreshPipeline, <<>>, FALSE)
       ELSE IF fluxCheckpoint = "broken"
       THEN \* an error that names no missing component: re-raised
            FluxRaised(FluxError("Exception", {"checkpoint"}), <<>>, FALSE)
       ELSE \* missing components: require_local_encoders = (MODEL_SOURCE == 'local')
            \E vaeChain \in BoolSeqsOfLen(VaeChainLen),
               clipChain \in BoolSeqsOfLen(ClipChainLen),
               t5Chain \in BoolSeqsOfLen(T5ChainLen),
               t5Conv \in {"ok", "raises"}, retryOK \in BOOLEAN :
                LET requireLocal == (fluxModelSource = "local")
                    vae == CallWithKeywords(LoadVaeWithFallbackParams,
                                {"require_local"},
                                LoadVaeWithFallback(fluxEnv.vae, vaeChain))
                    enc == CallWithKeywords(LoadTextEncodersParams,
                                {"require_local"},
                                LoadTextEncoders(fluxEnv.clip, clipChain,
                                                 fluxEnv.t5, t5Conv, t5Chain))
                IN IF ~vae.ok
                   THEN FluxRaised(vae.error, vae.log, requireLocal)
                   ELSE IF ~enc.ok
                   THEN FluxRaised(enc.error, vae.log \o enc.log, requireLocal)
                   ELSE IF retryOK
                   THEN FluxLoaded(FreshPipeline, vae.log \o enc.log, requireLocal)
                   ELSE FluxRaised(FluxError("Exception", {"checkpoint"}),
                                   vae.log \o enc.log, requireLocal)
    /\ fluxUnloadRun' = <<>>
    /\ UNCHANGED <<fluxModelSource, fluxCheckpoint, fluxHubOK, fluxEnv, fluxLoraPath,
                   fluxUnloaded>>
    /\ UNCHANGED fluxLoraVars
    /\ UNCHANGED fluxRequestVars
    /\ UNCHANGED notFlux

\* unload_pipeline()
FluxUnloadPipeline ==
    /\ fluxPipeline' = NoPipeline
    /\ fluxUnloaded' = (IF fluxPipeline.up THEN "true" ELSE "false")
    /\ fluxOutcome' = "returned"
    /\ fluxError' = NoFluxError
    /\ fluxUnloadRun' = KeepLastTwo(fluxUnloadRun,
            UnloadEntry(fluxPipeline.up, IF fluxPipeline.up THEN "true" ELSE "false",
                        fluxPipeline'.up))
    /\ UNCHANGED <<fluxModelSource, fluxCheckpoint, fluxHubOK, fluxEnv, fluxLoraPath,
                   fluxCurrentLora, fluxLog, fluxRequireLocal>>
    /\ UNCHANGED fluxLoraVars
    /\ UNCHANGED fluxRequestVars
    /\ UNCHANGED notFlux

(* ---- flux_service.load_multiple_loras ---- *)

MaxLoras == 4   \* MAX_LORAS

\* Files a request can name: one that attaches, one whose attach raises, one
\* that does not exist, one that exists under another suffix.
LoraFiles == {"style.safetensors", "broken.safetensors", "gone.safetensors",
              "style.ckpt"}
LoraScales == {10, 25}   \* in tenths: 1.0 and 2.5
LoraEntries ==
    {e \in [path : LoraFiles, scale : LoraScales] :
        e.scale = LoraDefaultScale \/ e.path = "style.safetensors"}
\* request.loras: lists of at most `most` entries
LoraRequests(most) == UNION {[1..n -> LoraEntries] : n \in 0..most}

\* Requests that name only overlays that attach: two files, default scale.
StyleFiles == {"style.safetensors", "detail.safetensors"}
StyleEntries == [path : StyleFiles, scale : {LoraDefaultScale}]
StyleRequests(most) == UNION {[1..n -> StyleEntries] : n \in 0..Min(most, MaxLoras)}

LoraFileExists(path) == path # "gone.safetensors"
LoraIsSafetensors(path) == path # "style.ckpt"
LoraStem(path) ==
    CASE path = "style.safetensors" -> "style"
      [] path = "detail.safetensors" -> "detail"
      [] path = "broken.safetensors" -> "broken"
      [] path = "gone.safetensors" -> "gone"
      [] path = "style.ckpt" -> "style"

\* adapter_name = f'lora_{i}_{lora_file.stem}', i counted from 0
AdapterName(i, path) == "lora_" \o ToString(i) \o "_" \o LoraStem(path)
NoAdapterName == "None"

\* pipeline.load_lora_weights(file, adapter_name=...) raises on the broken
\* file; under a name the pipeline already holds, the library decides.
AttachRaises(path, name, attached, reuseOK) ==
    \/ path = "broken.safetensors"
    \/ name \in attached /\ ~reuseOK

LoraEntry(config, name, loaded, error) ==
    [path |-> config.path, scale |-> config.scale, adapter_name |-> name,
     loaded |-> loaded, error |-> error]

\* The loop over enumerate(loras), from position i on: loaded_loras,
\* adapter_names, adapter_weights and the names attached to the pipeline.
RECURSIVE AttachLoras(_, _, _, _)
AttachLoras(loras, i, reuseOK, acc) ==
    IF i > Len(loras) THEN acc
    ELSE LET config == loras[i]
             name == AdapterName(i - 1, config.path)
         IN IF ~LoraFileExists(config.path)
            THEN AttachLoras(loras, i + 1, reuseOK,
                     [acc EXCEPT !.entries = Append(@,
                         LoraEntry(config, NoAdapterName, FALSE, "File not found"))])
            ELSE IF ~LoraIsSafetensors(config.path)
            THEN AttachLoras(loras, i + 1, reuseOK,
                     [acc EXCEPT !.entries = Append(@,
                         LoraEntry(config, NoAdapterName, FALSE,
                                   "Must be .safetensors format"))])
            ELSE IF AttachRaises(config.path, name, acc.attached, reuseOK)
            THEN AttachLoras(loras, i + 1, reuseOK,
                     [acc EXCEPT !.entries = Append(@,
                         LoraEntry(config, name, FALSE, "str(e)"))])
            ELSE AttachLoras(loras, i + 1, reuseOK,
                     [entries |-> Append(acc.entries,
                                     LoraEntry(config, name, TRUE, "none")),
                      names |-> Append(acc.names, name),
                      weights |-> Append(acc.weights, config.scale),
                      attached |-> acc.attached \cup {name}])

\* pipeline.set_adapters(adapter_names, adapter_weights=adapter_weights)
SetAdaptersCall(names, weights, ok) ==
    [names |-> names, weights |-> weights, ok |-> ok]
\* Only the first adapter of the call activated.
ActiveAfterFirstOnly(names, weights) == {<<names[1], weights[1]>>}

ActiveAfter(names, weights) ==
    {<<names[k], weights[k]>> : k \in 1..Len(names)}

\* A request passed on whole, whatever its length.
LimitToMaxLorasKeepsAll(loras) == loras

\* loras[:MAX_LORAS]
LimitToMaxLoras(loras) ==
    IF Len(loras) > MaxLoras THEN SubSeq(loras, 1, MaxLoras) ELSE loras

\* Some entry of the request asks for a name the pipeline already holds.
NamesAgain(loras) ==
    \E i \in 1..Len(loras) :
        AdapterName(i - 1, loras[i].path) \in fluxPipeline.attached

\* What a library call made inside try/except can do: return or raise; a
\* call that is not made returns nothing to choose from.
LibraryOutcomes(isCalled) == IF isCalled THEN BOOLEAN ELSE {TRUE}

\* load_multiple_loras(loras) on the pipeline `pipe` with current_loras
\* `current`: the pipeline and current_loras it leaves, what it returns and
\* the set_adapters calls it makes.
LoadMultipleLoras(pipe, current, loras, reuseOK, setOK, unloadOK) ==
    IF ~pipe.up
    THEN \* RuntimeError('Pipeline must be loaded before adding LoRAs')
         [pipe |-> pipe, current |-> current,
          ret |-> LoraReturn("raised", <<>>), calls |-> <<>>]
    ELSE IF loras = <<>>
    THEN [pipe |-> IF current # <<>> /\ unloadOK
                   THEN [pipe EXCEPT !.attached = {}, !.active = {}]
                   ELSE pipe,
          current |-> <<>>,
          ret |-> LoraReturn("returned", <<>>), calls |-> <<>>]
    ELSE LET done == AttachLoras(LimitToMaxLoras(loras), 1, reuseOK,
                         [entries |-> <<>>, names |-> <<>>, weights |-> <<>>,
                          attached |-> pipe.attached])
             called == done.names # <<>>
         IN [pipe |-> [pipe EXCEPT
                          !.attached = done.attached,
                          !.active = IF called /\ setOK
                                     THEN ActiveAfter(done.names, done.weights)
                                     ELSE @],
             current |-> done.entries,
             ret |-> LoraReturn("returned", done.entries),
             calls |-> IF called
                       THEN <<SetAdaptersCall(done.names, done.weights, setOK)>>
                       ELSE <<>>]

\* load_multiple_loras(loras), called on the module globals
FluxLoadMultipleLoras ==
    \E loras \in LoraRequests(fluxLoraBudget) :
      \E reuseOK \in LibraryOutcomes(NamesAgain(LimitToMaxLoras(loras))),
         setOK \in LibraryOutcomes(fluxPipeline.up /\ loras # <<>>),
         unloadOK \in LibraryOutcomes(fluxPipeline.up /\ loras = <<>>
                                         /\ fluxCurrentLoras # <<>>) :
        LET call == LoadMultipleLoras(fluxPipeline, fluxCurrentLoras, loras,
                                      reuseOK, setOK, unloadOK)
        IN /\ fluxLoraBudget' = fluxLoraBudget - Len(loras)
           /\ fluxLoraRequest' = loras
           /\ fluxPipeline' = call.pipe
           /\ fluxCurrentLoras' = call.current
           /\ fluxLoraReturn' = call.ret
           /\ fluxAdapterCalls' = call.calls
           /\ UNCHANGED <<fluxModelSource, fluxCheckpoint, fluxHubOK, fluxEnv,
                          fluxLoraPath, fluxCurrentLora, fluxOutcome,
                          fluxUnloaded, fluxError, fluxLog, fluxRequireLocal,
                          fluxUnloadRun, fluxGenerated>>
           /\ UNCHANGED fluxRequestVars
           /\ UNCHANGED notFlux

(* ---- flux_service.generate_image ---- *)

\* What a /generate request did: how it ended, the loras it carried and the
\* adapters active on the pipeline when pipe(...) was called.
Generation(how, loras, active) ==
    [outcome |-> how, loras |-> loras, active |-> active]

\* SUPPORTED_SCHEDULERS, and the class a name stands for
SupportedSchedulers == {"euler", "dpmsolver", "ddim", "pndm"}
SchedulerClass(name) ==
    CASE name = "euler" -> "EulerDiscreteScheduler"
      [] name = "dpmsolver" -> "DPMSolverMultistepScheduler"
      [] name = "ddim" -> "DDIMScheduler"
      [] name = "pndm" -> "PNDMScheduler"

\* The optional fields of a request: lora_scale (<<>> for None, else the
\* value in tenths), scheduler ("none" for None) and fix_faces.
NoOptions == [lora_scale |-> <<>>, scheduler |-> "none", fix_faces |-> FALSE]
FluxOptions(budget) ==
    IF budget = 0 THEN {NoOptions}
    ELSE [lora_scale : {<<>>, <<5>>}, scheduler : {"none", "euler"},
          fix_faces : BOOLEAN]

\* The per-request lora_scale override of the legacy single LoRA:
\* original_scale, set_adapters(['default'], ...) and current_lora['scale']
\* inside try/except.
OverrideScale(pipe, lora, loras, scale, adjustOK) ==
    IF scale # <<>> /\ lora.loaded /\ loras = <<>>
    THEN IF lora.scale # scale[1] /\ adjustOK
         THEN [pipe |-> [pipe EXCEPT !.active = {<<"default", scale[1]>>}],
               lora |-> [lora EXCEPT !.scale = scale[1]],
               original |-> <<lora.scale>>]
         ELSE [pipe |-> pipe, lora |-> lora, original |-> <<lora.scale>>]
    ELSE [pipe |-> pipe, lora |-> lora, original |-> <<>>]

\* The statements after pipe(...) that put the scale back, inside
\* try/except.
RestoreScale(pipe, lora, original, restoreOK) ==
    IF original # <<>> /\ original[1] # lora.scale /\ restoreOK
    THEN [pipe |-> [pipe EXCEPT !.active = {<<"default", original[1]>>}],
          lora |-> [lora EXCEPT !.scale = original[1]]]
    ELSE [pipe |-> pipe, lora |-> lora]

\* Keyword parameters of FaceFixingPipeline.fix_faces, and the keywords
\* generate_image calls it with.
FixFacesParams == {"fidelity", "upscale"}
FluxFixFacesKeywords == {"restoration_strength", "upscale"}

\* The face fixing block of generate_image: load_face_fixer(), then
\* fixer.fix_faces(...), all inside try/except.  What it leaves in
\* face_fixer and in face_fix_info, and whether the image was replaced.
FluxFixFaces(fixer, fixerOK, runOK) ==
    IF ~fixer /\ ~fixerOK
    THEN \* load_face_fixer returned None
         [fixer |-> FALSE, fixed |-> FALSE,
          info |-> FaceInfo(FALSE, "Face fixing module not available")]
    ELSE IF ~(FluxFixFacesKeywords \subseteq FixFacesParams)
    THEN [fixer |-> TRUE, fixed |-> FALSE, info |-> FaceInfo(FALSE, "TypeError")]
    ELSE IF ~runOK
    THEN [fixer |-> TRUE, fixed |-> FALSE, info |-> FaceInfo(FALSE, "str(e)")]
    ELSE [fixer |-> TRUE, fixed |-> TRUE, info |-> FaceInfo(TRUE, "none")]

\* The request reaches the set_adapters(['default'], ...) calls: it carries
\* a lora_scale and no loras, and the legacy LoRA is or gets loaded.
LegacyOverride(loras, opts) ==
    /\ opts.lora_scale # <<>>
    /\ loras = <<>>
    /\ fluxCurrentLora.loaded \/ (~fluxPipeline.up /\ fluxLoraPath = "good")

\* generate_image(request), with MODEL_SOURCE the hub and FLUX_SCHEDULER
\* unset: load_pipeline(), load_multiple_loras when request.loras is not
\* empty, the lora_scale and scheduler overrides, pipe(...), the two
\* restores, face fixing.  An exception anywhere outside the inner
\* try/except blocks ends the request with HTTP 500.
GenerateImage(requests) ==
    /\ fluxModelSource = "huggingface"
    /\ \E loras \in requests, opts \in FluxOptions(fluxOptionBudget) :
         \E reuseOK \in LibraryOutcomes(NamesAgain(LimitToMaxLoras(loras))),
            setOK \in LibraryOutcomes(loras # <<>>),
            adjustOK \in LibraryOutcomes(LegacyOverride(loras, opts)),
            schedOK \in LibraryOutcomes(opts.scheduler \in SupportedSchedulers),
            inferOK \in BOOLEAN,
            restoreOK \in LibraryOutcomes(LegacyOverride(loras, opts)),
            fixerOK \in LibraryOutcomes(opts.fix_faces /\ ~fluxFaceFixer) :
           LET start == IF fluxPipeline.up
                        THEN [pipe |-> fluxPipeline, lora |-> fluxCurrentLora]
                        ELSE IF fluxHubOK
                        THEN AutoLoadLora(FreshPipeline, fluxCurrentLora,
                                          fluxLoraPath)
                        ELSE [pipe |-> NoPipeline, lora |-> fluxCurrentLora]
               call == IF loras # <<>>
                       THEN LoadMultipleLoras(start.pipe, fluxCurrentLoras, loras,
                                              reuseOK, setOK, TRUE)
                       ELSE [pipe |-> start.pipe, current |-> fluxCurrentLoras,
                             ret |-> fluxLoraReturn, calls |-> fluxAdapterCalls]
               scaled == OverrideScale(call.pipe, start.lora, loras,
                                       opts.lora_scale, adjustOK)
               swapped == opts.scheduler \in SupportedSchedulers /\ schedOK
               atCall == IF swapped
                         THEN [scaled.pipe EXCEPT
                                  !.scheduler = SchedulerClass(opts.scheduler)]
                         ELSE scaled.pipe
               ran == start.pipe.up /\ schedOK /\ inferOK
               restored == RestoreScale(atCall, scaled.lora, scaled.original,
                                        restoreOK)
               after == IF ran
                        THEN [pipe |-> [restored.pipe EXCEPT
                                           !.scheduler = scaled.pipe.scheduler],
                              lora |-> restored.lora]
                        ELSE [pipe |-> atCall, lora |-> scaled.lora]
               faces == IF ran /\ opts.fix_faces
                        THEN FluxFixFaces(fluxFaceFixer, fixerOK, TRUE)
                        ELSE [fixer |-> fluxFaceFixer, fixed |-> FALSE,
                              info |-> NoFaceInfo]
           IN /\ fluxLoraBudget' = fluxLoraBudget - Len(loras)
              /\ fluxOptionBudget' = IF opts = NoOptions THEN fluxOptionBudget
                                     ELSE fluxOptionBudget - 1
              /\ fluxLog' = IF fluxPipeline.up THEN fluxLog ELSE <<>>
              /\ fluxRequireLocal' = (fluxPipeline.up /\ fluxRequireLocal)
              /\ fluxUnloadRun' = <<>>
              /\ fluxFaceFixer' = faces.fixer
              /\ fluxFaceInfo' = FaceOutcome(ran /\ opts.fix_faces, faces.fixed,
                                           faces.info)
              /\ IF ~start.pipe.up
                 THEN \* load_pipeline raised: HTTP 500
                      /\ fluxOutcome' = "raised"
                      /\ fluxError' = FluxError("HubError", {"hub"})
                      /\ fluxGenerated' = Generation("raised", loras, {})
                      /\ UNCHANGED <<fluxPipeline, fluxCurrentLora,
                                     fluxCurrentLoras, fluxLoraRequest,
                                     fluxLoraReturn, fluxAdapterCalls>>
                 ELSE /\ fluxOutcome' = "returned"
                      /\ fluxError' = NoFluxError
                      /\ fluxPipeline' = after.pipe
                      /\ fluxCurrentLora' = after.lora
                      /\ fluxCurrentLoras' = call.current
                      /\ fluxLoraRequest' = IF loras # <<>> THEN loras
                                            ELSE fluxLoraRequest
                      /\ fluxLoraReturn' = call.ret
                      /\ fluxAdapterCalls' = call.calls
                      /\ fluxGenerated' =
                            Generation(IF ran THEN "returned" ELSE "raised",
                                       loras, atCall.active)
              /\ UNCHANGED <<fluxModelSource, fluxCheckpoint, fluxHubOK,
                             fluxEnv, fluxLoraPath, fluxUnloaded>>
              /\ UNCHANGED notFlux

\* POST /generate
FluxGenerate == GenerateImage(LoraRequests(fluxLoraBudget))

\* POST /generate, the requests naming overlays that attach
FluxGenerateStyles == GenerateImage(StyleRequests(fluxLoraBudget))

(* ---- vlm_service ---- *)

\* The service runs under uvicorn on one event loop and every endpoint is an
\* `async def` whose body contains no await: once the loop has started a
\* handler it runs it to its end before it starts another.

VlmKinds == {"compare", "load", "unload"}
VlmRequests == 1..Len(vlmReq)

\* A request: its endpoint, whether the slot was empty when it arrived,
\* where its handler stands, the HTTP status it answered, the local `model`
\* of compare_images and what unload_model() returned to it.
VlmRequest(kind, cold) ==
    [kind |-> kind, cold |-> cold, pc |-> "queued", status |-> "none",
     model |-> 0, unloaded |-> "none"]

\* The requests whose model.create_chat_completion() call is executing.
VlmInFlight == {r \in VlmRequests : vlmReq[r].pc = "inferring"}

VlmEvent(ev, r, inst) == [ev |-> ev, req |-> r, inst |-> inst]

VlmLive == (1..vlmMade) \ vlmClosed

VlmAtRest ==
    /\ vlmLlm = 0
    /\ vlmChatHandler = 0
    /\ vlmMade = 0
    /\ vlmHandlers = 0
    /\ vlmClosed = {}
    /\ vlmReq = <<>>
    /\ vlmQueue = <<>>
    /\ vlmRunning = 0
    /\ vlmTrace = <<>>
    /\ vlmUnloadRun = <<>>

IdleVlm == VlmAtRest /\ vlmInstalled = TRUE /\ vlmBudget = 0

InitVlm == VlmAtRest /\ vlmInstalled \in BOOLEAN /\ vlmBudget = MaxRequests

\* A request reaches the service: its task is put at the end of the event
\* loop's run queue.
VlmArrive(kind) ==
    /\ Len(vlmReq) < vlmBudget
    /\ vlmReq' = Append(vlmReq, VlmRequest(kind, vlmLlm = 0))
    /\ vlmQueue' = Append(vlmQueue, Len(vlmReq) + 1)
    /\ vlmTrace' = Append(vlmTrace, VlmEvent("arrive", Len(vlmReq) + 1, 0))
    /\ UNCHANGED <<vlmLlm, vlmChatHandler, vlmMade, vlmHandlers, vlmClosed,
                   vlmInstalled, vlmRunning, vlmBudget, vlmUnloadRun>>
    /\ UNCHANGED notVlm

\* A run queue served from its newest entry.
NextReadyNewest(queue) == queue[Len(queue)]

\* The event loop runs its ready tasks first in, first out.
NextReady(queue) == Head(queue)

\* A loop that starts a handler while another one is inside its body, as it
\* could if the body awaited.
VlmDispatchWhileBusy ==
    /\ vlmQueue # <<>>
    /\ LET r == NextReady(vlmQueue)
       IN /\ vlmRunning' = r
          /\ vlmReq' = [vlmReq EXCEPT ![r].pc = "start"]
          /\ vlmQueue' = SelectSeq(vlmQueue, LAMBDA x : x # r)
    /\ UNCHANGED <<vlmLlm, vlmChatHandler, vlmMade, vlmHandlers, vlmClosed,
                   vlmInstalled, vlmTrace, vlmBudget, vlmUnloadRun>>
    /\ UNCHANGED notVlm

\* The loop is free and starts the handler of the next ready request.
VlmDispatch ==
    /\ vlmRunning = 0
    /\ vlmQueue # <<>>
    /\ LET r == NextReady(vlmQueue)
       IN /\ vlmRunning' = r
          /\ vlmReq' = [vlmReq EXCEPT ![r].pc = "start"]
          /\ vlmQueue' = SelectSeq(vlmQueue, LAMBDA x : x # r)
    /\ UNCHANGED <<vlmLlm, vlmChatHandler, vlmMade, vlmHandlers, vlmClosed,
                   vlmInstalled, vlmTrace, vlmBudget, vlmUnloadRun>>
    /\ UNCHANGED notVlm

\* load_model() that constructs without looking at the slot.
VlmLoadOutcomesUnchecked ==
    IF ~vlmInstalled THEN {"import_error"}
    ELSE {"download_error", "llama_error", "ok"}

\* The ways load_model() can go from the current state:
\*   "present"         llm is not None: return llm
\*   "import_error"    llama_cpp is not installed: RuntimeError
\*   "download_error"  resolving the files or building the chat handler raises
\*   "llama_error"     the chat handler is built and stored, Llama(...) raises
\*   "ok"              chat handler and Llama are built and stored
VlmLoadOutcomes ==
    IF vlmLlm # 0 THEN {"present"}
    ELSE IF ~vlmInstalled THEN {"import_error"}
    ELSE {"download_error", "llama_error", "ok"}

VlmLoadRaises(how) == how \in {"import_error", "download_error", "llama_error"}

\* load_model(): what it leaves in the globals.
VlmLoadModel(how) ==
    /\ vlmHandlers' = IF how \in {"llama_error", "ok"}
                      THEN vlmHandlers + 1 ELSE vlmHandlers
    /\ vlmChatHandler' = IF how \in {"llama_error", "ok"}
                         THEN vlmHandlers + 1 ELSE vlmChatHandler
    /\ vlmMade' = IF how = "ok" THEN vlmMade + 1 ELSE vlmMade
    /\ vlmLlm' = IF how = "ok" THEN vlmMade + 1 ELSE vlmLlm
    /\ vlmUnloadRun' = <<>>
    /\ UNCHANGED vlmClosed

\* The handler of request r answers with status and the loop is free again.
VlmAnswer(r, req, status) ==
    /\ vlmReq' = [vlmReq EXCEPT ![r] = [req EXCEPT !.pc = "done",
                                                   !.status = status]]
    /\ vlmRunning' = 0

\* compare_images: model = load_model(); an exception becomes a 500.
VlmCompareLoad ==
    /\ vlmRunning # 0
    /\ vlmReq[vlmRunning].kind = "compare"
    /\ vlmReq[vlmRunning].pc = "start"
    /\ \E how \in VlmLoadOutcomes :
          /\ VlmLoadModel(how)
          /\ IF VlmLoadRaises(how)
             THEN VlmAnswer(vlmRunning, vlmReq[vlmRunning], "500")
             ELSE /\ vlmReq' = [vlmReq EXCEPT ![vlmRunning].pc = "encode",
                                              ![vlmRunning].model = vlmLlm']
                  /\ UNCHANGED vlmRunning
    /\ UNCHANGED <<vlmInstalled, vlmQueue, vlmTrace, vlmBudget>>
    /\ UNCHANGED notVlm

\* compare_images: encode_image() of both images; FileNotFoundError is a 400.
VlmCompareEncode ==
    /\ vlmRunning # 0
    /\ vlmReq[vlmRunning].pc = "encode"
    /\ \E found \in BOOLEAN :
          IF found
          THEN /\ vlmReq' = [vlmReq EXCEPT ![vlmRunning].pc = "infer"]
               /\ UNCHANGED vlmRunning
          ELSE VlmAnswer(vlmRunning, vlmReq[vlmRunning], "400")
    /\ UNCHANGED <<vlmLlm, vlmChatHandler, vlmMade, vlmHandlers, vlmClosed,
                   vlmInstalled, vlmQueue, vlmTrace, vlmBudget, vlmUnloadRun>>
    /\ UNCHANGED notVlm

\* compare_images: model.create_chat_completion(...) is entered.
VlmInferBegin ==
    /\ vlmRunning # 0
    /\ vlmReq[vlmRunning].pc = "infer"
    /\ vlmReq' = [vlmReq EXCEPT ![vlmRunning].pc = "inferring"]
    /\ vlmTrace' = Append(vlmTrace,
            VlmEvent("infer_begin", vlmRunning, vlmReq[vlmRunning].model))
    /\ UNCHANGED <<vlmLlm, vlmChatHandler, vlmMade, vlmHandlers, vlmClosed,
                   vlmInstalled, vlmQueue, vlmRunning, vlmBudget, vlmUnloadRun>>
    /\ UNCHANGED notVlm

\* compare_images: create_chat_completion returns or raises, the reply is
\* parsed and the response returned; any exception becomes a 500.
VlmInferEnd ==
    /\ vlmRunning # 0
    /\ vlmReq[vlmRunning].pc = "inferring"
    /\ \E how \in {"ok", "bad_reply", "raises"} :
          /\ vlmTrace' = Append(vlmTrace,
                VlmEvent(IF how = "raises" THEN "infer_fail" ELSE "infer_end",
                         vlmRunning, vlmReq[vlmRunning].model))
          /\ VlmAnswer(vlmRunning, vlmReq[vlmRunning],
                       IF how = "ok" THEN "200" ELSE "500")
    /\ UNCHANGED <<vlmLlm, vlmChatHandler, vlmMade, vlmHandlers, vlmClosed,
                   vlmInstalled, vlmQueue, vlmBudget, vlmUnloadRun>>
    /\ UNCHANGED notVlm

\* load_model_endpoint: load_model(); an exception becomes a 500.
VlmHandleLoad ==
    /\ vlmRunning # 0
    /\ vlmReq[vlmRunning].kind = "load"
    /\ vlmReq[vlmRunning].pc = "start"
    /\ \E how \in VlmLoadOutcomes :
          /\ VlmLoadModel(how)
          /\ VlmAnswer(vlmRunning, vlmReq[vlmRunning],
                       IF VlmLoadRaises(how) THEN "500" ELSE "200")
    /\ UNCHANGED <<vlmInstalled, vlmQueue, vlmTrace, vlmBudget>>
    /\ UNCHANGED notVlm

\* An unload_model() that reports True whether or not a model was loaded.
VlmHandleUnloadAlwaysTrue ==
    /\ vlmRunning # 0
    /\ vlmReq[vlmRunning].kind = "unload"
    /\ vlmReq[vlmRunning].pc = "start"
    /\ vlmClosed' = IF vlmLlm # 0 THEN vlmClosed \cup {vlmLlm} ELSE vlmClosed
    /\ vlmLlm' = 0
    /\ vlmChatHandler' = 0
    /\ VlmAnswer(vlmRunning,
                 [vlmReq[vlmRunning] EXCEPT !.unloaded = "true"], "200")
    /\ vlmUnloadRun' = KeepLastTwo(vlmUnloadRun,
                           UnloadEntry(vlmLlm # 0, "true", vlmLlm' # 0))
    /\ UNCHANGED <<vlmMade, vlmHandlers, vlmInstalled, vlmQueue, vlmTrace,
                   vlmBudget>>
    /\ UNCHANGED notVlm

\* unload_model_endpoint: unload_model() closes the model and clears both
\* globals when llm is not None and returns True, else returns False.
VlmHandleUnload ==
    /\ vlmRunning # 0
    /\ vlmReq[vlmRunning].kind = "unload"
    /\ vlmReq[vlmRunning].pc = "start"
    /\ LET answer == IF vlmLlm # 0 THEN "true" ELSE "false"
       IN /\ vlmClosed' = IF vlmLlm # 0 THEN vlmClosed \cup {vlmLlm} ELSE vlmClosed
          /\ vlmLlm' = 0
          /\ vlmChatHandler' = IF vlmLlm # 0 THEN 0 ELSE vlmChatHandler
          /\ VlmAnswer(vlmRunning,
                       [vlmReq[vlmRunning] EXCEPT !.unloaded = answer], "200")
          /\ vlmUnloadRun' = KeepLastTwo(vlmUnloadRun,
                                 UnloadEntry(vlmLlm # 0, answer, vlmLlm' # 0))
    /\ UNCHANGED <<vlmMade, vlmHandlers, vlmInstalled, vlmQueue, vlmTrace,
                   vlmBudget>>
    /\ UNCHANGED notVlm

NextVlm ==
    \/ \E kind \in VlmKinds : VlmArrive(kind)
    \/ VlmDispatch
    \/ VlmCompareLoad
    \/ VlmCompareEncode
    \/ VlmInferBegin
    \/ VlmInferEnd
    \/ VlmHandleLoad
    \/ VlmHandleUnload

(* ---- modal_diffusion_service.DiffusionService ---- *)

\* Two of SUPPORTED_MODELS, one with the flux and one with the sdxl
\* pipeline.
ModalModels == {"flux-dev", "sdxl-base"}
\* The models.json entry of the runs that have one: an SDXL checkpoint
\* with "custom": true (and refiner_same_as_base left at its default).
CustomModel == "dmd-sdxl"
\* _get_model_config: the names it finds a configuration for.
ModalKnown == ModalModels \cup modalCustomModels
\* Model names a request can carry: the known ones and a name that is in no
\* table.
ModalModelNames == ModalKnown \cup {"unknown"}
ModalPipelineType(model) ==
    IF model = "sdxl-base" \/ model \in modalCustomModels THEN "sdxl" ELSE "flux"

\* _load_refiner_pipeline(model_config): what the img2img pipeline is built
\* from, the checkpoint of a custom model or the official refiner.
OfficialRefiner == "stable-diffusion-xl-refiner-1.0"
RefinerOf(model) ==
    IF model \in modalCustomModels THEN model ELSE OfficialRefiner

\* How the construction of a pipeline can end: it succeeds; from_pretrained
\* raises; or a statement after `self.pipeline = ...` raises (the move to
\* the device, enable_sequential_cpu_offload, _init_compel_for_sdxl or
\* model_volume.commit()).
BuildOutcomes == {"ok", "build_fails", "setup_fails"}

\* A new pipeline constructed while the old one is still held.
ModalSwitchStepsBuildFirst(resident) ==
    IF resident THEN <<"construct", "release">> ELSE <<"construct">>

\* `if self.pipeline is not None: del self.pipeline; empty_cache()`, then
\* from_pretrained
ModalSwitchSteps(resident) ==
    IF resident THEN <<"release", "construct">> ELSE <<"construct">>

\* The most pipelines held at once while `steps` run, from `held` on.
RECURSIVE PeakResident(_, _)
PeakResident(held, steps) ==
    IF steps = <<>> THEN held
    ELSE LET now == IF Head(steps) = "release" THEN held - 1 ELSE held + 1
         IN Max(held, PeakResident(now, Tail(steps)))

\* _load_pipeline(model_name): what it leaves in self.pipeline and
\* self.current_model, the steps it took and whether it raised.
ModalLoadPipeline(pipe, current, model, how) ==
    IF model \notin ModalKnown
    THEN \* _get_model_config raises ValueError
         [pipeline |-> pipe, current |-> current, steps |-> <<>>,
          raised |-> TRUE]
    ELSE IF current = model /\ pipe # "none"
    THEN [pipeline |-> pipe, current |-> current, steps |-> <<>>,
          raised |-> FALSE]
    ELSE LET steps == ModalSwitchSteps(pipe # "none")
         IN CASE how = "ok" ->
                   [pipeline |-> model, current |-> model, steps |-> steps,
                    raised |-> FALSE]
              [] how = "build_fails" ->
                   \* del self.pipeline has run; current_model is not touched
                   [pipeline |-> "none", current |-> current,
                    steps |-> steps, raised |-> TRUE]
              [] how = "setup_fails" ->
                   \* self.pipeline is assigned; current_model is not reached
                   [pipeline |-> model, current |-> current,
                    steps |-> steps, raised |-> TRUE]

NoAdapters == [attached |-> {}, active |-> {}]

\* request.loras of the diffusion service: lists of at most `most` entries
ModalLoraEntries == {e \in LoraEntries : e.path # "broken.safetensors"}
ModalLoraLists(most) == UNION {[1..n -> ModalLoraEntries] : n \in 0..most}

\* The loop over enumerate(loras) of _load_loras, from position i on.  A
\* missing file or a wrong suffix raises out of the loop.
RECURSIVE ModalAttachLoras(_, _, _, _)
ModalAttachLoras(loras, i, reuseOK, acc) ==
    IF i > Len(loras) THEN acc
    ELSE LET config == loras[i]
             name == AdapterName(i - 1, config.path)
         IN IF ~LoraFileExists(config.path)
            THEN [acc EXCEPT !.raised = "FileNotFoundError"]
            ELSE IF ~LoraIsSafetensors(config.path)
            THEN [acc EXCEPT !.raised = "ValueError"]
            ELSE IF AttachRaises(config.path, name, acc.attached, reuseOK)
            THEN ModalAttachLoras(loras, i + 1, reuseOK,
                     [acc EXCEPT !.entries = Append(@,
                         LoraEntry(config, name, FALSE, "str(e)"))])
            ELSE ModalAttachLoras(loras, i + 1, reuseOK,
                     [acc EXCEPT !.entries = Append(@,
                                     LoraEntry(config, name, TRUE, "none")),
                                 !.names = Append(@, name),
                                 !.weights = Append(@, config.scale),
                                 !.attached = @ \cup {name}])

ModalLoraReturn(how, loras, before, entries) ==
    [outcome |-> how, request |-> loras, before |-> before,
     entries |-> entries]
NoLoraCall == ModalLoraReturn("none", <<>>, {}, <<>>)

\* _load_loras(loras) on a pipeline with the adapters `adapters` and
\* current_loras `current`.
ModalLoadLoras(adapters, current, loras, reuseOK, setOK, unloadOK) ==
    IF loras = <<>>
    THEN [adapters |-> IF current # <<>> /\ unloadOK THEN NoAdapters
                       ELSE adapters,
          current |-> <<>>,
          call |-> ModalLoraReturn("returned", loras, adapters.active, <<>>)]
    ELSE LET done == ModalAttachLoras(loras, 1, reuseOK,
                         [entries |-> <<>>, names |-> <<>>, weights |-> <<>>,
                          attached |-> adapters.attached, raised |-> "none"])
         IN IF done.raised # "none"
            THEN [adapters |-> [adapters EXCEPT !.attached = done.attached],
                  current |-> current,
                  call |-> ModalLoraReturn("raised", loras, adapters.active,
                                           <<>>)]
            ELSE [adapters |->
                      [attached |-> done.attached,
                       active |-> IF done.names # <<>> /\ setOK
                                  THEN ActiveAfter(done.names, done.weights)
                                  ELSE adapters.active],
                  current |-> done.entries,
                  call |-> ModalLoraReturn("returned", loras, adapters.active,
                                           done.entries)]

\* The pipeline calls of one generate(): the base pass and, when `second`
\* (SDXL with refiner, or SDXL touch-up), a pass on self.refiner_pipeline.
\* failAt is the pass that raises (0: none).
ModalPasses(second, failAt) ==
    IF failAt = 1 THEN <<"infer_fail">>
    ELSE IF ~second THEN <<"infer_ok">>
    ELSE IF failAt = 2 THEN <<"infer_ok", "infer_fail">>
    ELSE <<"infer_ok", "infer_ok">>

NotServed ==
    [asked |-> "none", by |-> "none", refiner |-> "none", face |-> NoFaceOutcome]
NoRequest == [via |-> "none", items |-> <<>>]

ModalAtRest ==
    /\ modalPipeline = "flux-dev"
    /\ modalCurrentModel = "flux-dev"
    /\ modalRefiner = "none"
    /\ modalCurrentLoras = <<>>
    /\ modalAdapters = NoAdapters
    /\ modalPeak = 1
    /\ modalLoraCall = NoLoraCall
    /\ modalServed = NotServed
    /\ modalRequest = NoRequest
    /\ modalBatch = <<>>
    /\ modalTrace = <<>>
    /\ modalOutcome = "none"

ModalPlain ==
    /\ modalCustomModels = {}
    /\ modalFaceFixer = "get_face_fixer"
    /\ modalFaceBudget = 0

IdleModal == ModalAtRest /\ ModalPlain /\ modalBudget = 0

InitModal == ModalAtRest /\ ModalPlain /\ modalBudget = MaxModalWork

\* What one generate call takes: the request's model, loras and whether it
\* asks for a second pass (use_refiner or touchup_strength).  The requests
\* drawn ask for a second pass only of an SDXL model and name loras only
\* with a model the service knows.
ModalItem(model, loras, second, fix_faces) ==
    [model |-> model, loras |-> loras, second |-> second,
     fix_faces |-> fix_faces]
ModalItems(budget) ==
    {item \in {ModalItem(model, loras, second, fix_faces) :
                  model \in ModalModelNames,
                  loras \in ModalLoraLists(budget - 1), second \in BOOLEAN,
                  fix_faces \in IF modalFaceBudget > 0 THEN BOOLEAN
                                ELSE {FALSE}} :
        /\ item.second => ModalPipelineType(item.model) = "sdxl"
        /\ item.loras # <<>> => item.model \in ModalKnown}

\* What a call takes from the run's budget.
Cost(item) == 1 + Len(item.loras)

\* Keyword parameters of face_fixing.get_face_fixer, and the keywords
\* generate calls self.face_fixer with.
GetFaceFixerParams == {"device"}
ModalGetFixerKeywords == {"device", "models_dir"}

\* The face fixing block of generate: skipped when self.face_fixer is
\* None; else self.face_fixer(...) and fixer.fix_faces(...) inside
\* try/except.
ModalFixFaces(getter, runOK) ==
    IF getter = "none"
    THEN [fixed |-> FALSE, info |-> NoFaceInfo]
    ELSE IF ~(ModalGetFixerKeywords \subseteq GetFaceFixerParams)
    THEN [fixed |-> FALSE, info |-> FaceInfo(FALSE, "TypeError")]
    ELSE IF ~runOK
    THEN [fixed |-> FALSE, info |-> FaceInfo(FALSE, "str(e)")]
    ELSE [fixed |-> TRUE, info |-> FaceInfo(TRUE, "none")]

\* generate(prompt, model, ..., loras, ..., use_refiner, ..., clear_cache)
\* run on the service's fields as they stand.
ModalRun(item, how, reuseOK, setOK, unloadOK, refinerOK, failAt, clearCache) ==
    LET loaded == ModalLoadPipeline(modalPipeline, modalCurrentModel,
                                    item.model, how)
        fresh == IF "construct" \in Range(loaded.steps) THEN NoAdapters
                 ELSE modalAdapters
        loras == ModalLoadLoras(fresh, modalCurrentLoras, item.loras,
                                reuseOK, setOK, unloadOK)
        second == item.second /\ ModalPipelineType(item.model) = "sdxl"
        needRefiner == second /\ modalRefiner = "none"
        refiner == IF needRefiner THEN RefinerOf(item.model) ELSE modalRefiner
        passes == ModalPasses(second, failAt)
        failed == passes[Len(passes)] = "infer_fail"
        begun == <<"load_pipeline">> \o loaded.steps
        faces == IF ~failed /\ item.fix_faces
                 THEN ModalFixFaces(modalFaceFixer, TRUE)
                 ELSE [fixed |-> FALSE, info |-> NoFaceInfo]
    IN /\ modalPipeline' = loaded.pipeline
       /\ modalCurrentModel' = loaded.current
       /\ modalPeak' = PeakResident(IF modalPipeline # "none" THEN 1 ELSE 0,
                                    loaded.steps)
       /\ modalBudget' = modalBudget - Cost(item)
       /\ modalFaceBudget' = IF item.fix_faces /\ modalFaceBudget > 0
                              THEN modalFaceBudget - 1 ELSE modalFaceBudget
       /\ IF loaded.raised
          THEN /\ modalAdapters' = fresh
               /\ modalLoraCall' = NoLoraCall
               /\ modalServed' = NotServed
               /\ modalTrace' = begun
               /\ modalOutcome' = "raised"
               /\ UNCHANGED <<modalCurrentLoras, modalRefiner>>
          ELSE /\ modalAdapters' = loras.adapters
               /\ modalCurrentLoras' = loras.current
               /\ modalLoraCall' = loras.call
               /\ IF loras.call.outcome = "raised"
                  THEN /\ modalServed' = NotServed
                       /\ modalTrace' = Append(begun, "load_loras")
                       /\ modalOutcome' = "raised"
                       /\ UNCHANGED modalRefiner
                  ELSE IF needRefiner /\ ~refinerOK
                  THEN \* _load_refiner_pipeline raises before any pass
                       /\ modalServed' = NotServed
                       /\ modalTrace' = begun \o <<"load_loras", "load_refiner">>
                       /\ modalOutcome' = "raised"
                       /\ UNCHANGED modalRefiner
                  ELSE /\ modalRefiner' = refiner
                       /\ modalServed' = [asked |-> item.model,
                                          by |-> loaded.pipeline,
                                          refiner |-> IF second THEN refiner
                                                      ELSE "none",
                                          face |-> FaceOutcome(
                                              ~failed /\ item.fix_faces,
                                              faces.fixed, faces.info)]
                       /\ modalTrace' = Append(begun, "load_loras") \o passes
                              \o (IF ~failed /\ clearCache
                                  THEN <<"cleanup">> ELSE <<>>)
                       /\ modalOutcome' = IF failed THEN "raised" ELSE "returned"

\* What the environment decides during one generate call: how a
\* construction ends, and what each library call that is made does.
ModalBuilds(model) ==
    IF model \in ModalKnown /\ ~(modalCurrentModel = model /\ modalPipeline # "none")
    THEN BuildOutcomes ELSE {"ok"}
ModalRunsOf(item, caches) ==
    \E how \in ModalBuilds(item.model) :
        LET reached == how = "ok" /\ item.model \in ModalKnown
            attaches == reached /\ \E i \in 1..Len(item.loras) :
                            item.loras[i].path = "style.safetensors"
            second == item.second /\ ModalPipelineType(item.model) = "sdxl"
        IN \E reuseOK \in LibraryOutcomes(attaches /\ modalAdapters.attached # {}),
              setOK \in LibraryOutcomes(attaches),
              unloadOK \in LibraryOutcomes(reached /\ item.loras = <<>>
                                               /\ modalCurrentLoras # <<>>),
              refinerOK \in LibraryOutcomes(reached /\ second /\ modalRefiner = "none"),
              failAt \in 0..(IF ~reached THEN 0 ELSE IF second THEN 2 ELSE 1) :
               \* clear_cache is read only after the last pass returned
               \E clearCache \in IF reached /\ failAt = 0 THEN caches ELSE {TRUE} :
                   ModalRun(item, how, reuseOK, setOK, unloadOK, refinerOK,
                            failAt, clearCache)

\* generate(...) called on the service object
ModalGenerate ==
    /\ modalBudget > 0
    /\ modalBatch = <<>>
    /\ modalRequest' = [via |-> "generate", items |-> <<>>]
    /\ \E item \in ModalItems(modalBudget) : ModalRunsOf(item, BOOLEAN)
    /\ UNCHANGED <<modalBatch, modalCustomModels, modalFaceFixer>>
    /\ UNCHANGED notModal

MaxLoraScale == 20   \* le=2.0
\* LoraConfig.scale: Field(default=1.0, ge=0.0, le=2.0), in tenths
ModalScaleValid(scale) == scale >= 0 /\ scale <= MaxLoraScale

\* Every item of the body validated, whatever the first one is like.
ModalBodyValidFirstOnly(items) ==
    \A k \in 1..Len(items[1].loras) : ModalScaleValid(items[1].loras[k].scale)

\* GenerateRequest(**body) or BatchGenerateRequest(**body): pydantic
\* validates every field of every item while it constructs the request.
ModalBodyValid(items) ==
    \A i \in 1..Len(items) :
        \A k \in 1..Len(items[i].loras) :
            ModalScaleValid(items[i].loras[k].scale)

\* The bodies a request can carry within the budget: one item, or a batch
\* (a body with a 'requests' key) of two with default passes.
ModalBodies(budget) ==
    {<<item>> : item \in ModalItems(budget)}
        \cup UNION {{<<first, then>> :
                        then \in {item \in ModalItems(budget - Cost(first)) :
                                     ~item.second}} :
                    first \in {item \in ModalItems(budget - 1) : ~item.second}}

BodyCost(items) ==
    IF Len(items) = 2 THEN Cost(items[1]) + Cost(items[2]) ELSE Cost(items[1])

\* generate_endpoint(body): the request is validated; a single request is
\* served at once, a batch item by item.
ModalEndpoint ==
    /\ modalBatch = <<>>
    /\ modalBudget > 0
    /\ \E items \in ModalBodies(modalBudget) :
          LET batch == Len(items) > 1
          IN
          /\ modalRequest' = [via |-> IF batch THEN "batch" ELSE "single",
                              items |-> items]
          /\ IF ~ModalBodyValid(items)
             THEN \* ValidationError: the handler ends here
                  /\ modalOutcome' = "rejected"
                  /\ modalTrace' = <<>>
                  /\ modalBudget' = modalBudget - BodyCost(items)
                  /\ UNCHANGED <<modalPipeline, modalCurrentModel, modalRefiner,
                                 modalCurrentLoras, modalAdapters, modalPeak,
                                 modalLoraCall, modalServed, modalBatch,
                                 modalFaceBudget>>
             ELSE IF batch
             THEN /\ modalBatch' = items
                  /\ modalOutcome' = "none"
                  /\ modalTrace' = <<>>
                  /\ UNCHANGED <<modalPipeline, modalCurrentModel, modalRefiner,
                                 modalCurrentLoras, modalAdapters, modalPeak,
                                 modalLoraCall, modalServed, modalBudget,
                                 modalFaceBudget>>
             ELSE /\ ModalRunsOf(items[1], {TRUE})
                  /\ UNCHANGED modalBatch
    /\ UNCHANGED <<modalCustomModels, modalFaceFixer>>
    /\ UNCHANGED notModal

\* One turn of `for req in batch_request.requests`, generate called with
\* clear_cache=False; the torch.cuda.empty_cache() that follows the loop
\* runs once the last item has returned.  An item that raises ends the
\* handler.
ModalBatchItem ==
    /\ modalBatch # <<>>
    /\ ModalRunsOf(Head(modalBatch), {Len(modalBatch) = 1})
    /\ modalBatch' = IF modalOutcome' = "raised" THEN <<>> ELSE Tail(modalBatch)
    /\ UNCHANGED <<modalRequest, modalCustomModels, modalFaceFixer>>
    /\ UNCHANGED notModal

(* ---- wan_video_service.VideoGenerationService ---- *)

WanModels == {"wan2.2-i2v-high", "wan2.2-ti2v-5b"}
WanModelNames == WanModels \cup {"unknown"}

\* `if self.pipeline is not None: del self.pipeline; empty_cache()`, then
\* the from_pretrained calls
WanSwitchSteps(resident) ==
    IF resident THEN <<"release", "construct">> ELSE <<"construct">>

\* _load_pipeline(model_name): as in the diffusion service.
WanLoadPipeline(pipe, current, model, how) ==
    IF model \notin WanModels
    THEN [pipeline |-> pipe, current |-> current, steps |-> <<>>,
          raised |-> TRUE]
    ELSE IF current = model /\ pipe # "none"
    THEN [pipeline |-> pipe, current |-> current, steps |-> <<>>,
          raised |-> FALSE]
    ELSE LET steps == WanSwitchSteps(pipe # "none")
         IN CASE how = "ok" ->
                   [pipeline |-> model, current |-> model, steps |-> steps,
                    raised |-> FALSE]
              [] how = "build_fails" ->
                   [pipeline |-> "none", current |-> current,
                    steps |-> steps, raised |-> TRUE]
              [] how = "setup_fails" ->
                   \* model_volume.commit() raises
                   [pipeline |-> model, current |-> current,
                    steps |-> steps, raised |-> TRUE]

WanAtRest ==
    /\ wanPipeline = "wan2.2-i2v-high"
    /\ wanCurrentModel = "wan2.2-i2v-high"
    /\ wanPeak = 1
    /\ wanTrace = <<>>
    /\ wanOutcome = "none"

IdleWan == WanAtRest /\ wanBudget = 0

InitWan == WanAtRest /\ wanBudget = MaxGenerate

\* try: ... finally: torch.cuda.empty_cache()
WanTryFinally(steps) == Append(steps, "cleanup")

\* generate(image_base64, prompt, mode, model, ...)
WanGenerate ==
    /\ wanBudget > 0
    /\ wanBudget' = wanBudget - 1
    /\ \E model \in WanModelNames, mode \in {"i2v", "t2v"},
          image \in {"absent", "undecodable", "given"},
          how \in BuildOutcomes, inferOK \in BOOLEAN, mp4OK \in BOOLEAN :
          LET loaded == WanLoadPipeline(wanPipeline, wanCurrentModel, model,
                                        how)
              begun == <<"load_pipeline">> \o loaded.steps
          IN /\ wanPipeline' = loaded.pipeline
             /\ wanCurrentModel' = loaded.current
             /\ wanPeak' = PeakResident(IF wanPipeline # "none" THEN 1 ELSE 0,
                                        loaded.steps)
             /\ IF loaded.raised
                THEN /\ wanTrace' = begun
                     /\ wanOutcome' = "raised"
                ELSE IF mode = "i2v" /\ image # "given"
                THEN \* ValueError from _decode_image or for the missing image
                     /\ wanTrace' = Append(begun, "bad_image")
                     /\ wanOutcome' = "raised"
                ELSE IF ~inferOK
                THEN /\ wanTrace' = WanTryFinally(Append(begun, "infer_fail"))
                     /\ wanOutcome' = "raised"
                ELSE IF ~mp4OK
                THEN /\ wanTrace' = WanTryFinally(begun \o <<"infer_ok",
                                                             "mp4_fail">>)
                     /\ wanOutcome' = "raised"
                ELSE /\ wanTrace' = WanTryFinally(begun \o <<"infer_ok", "mp4">>)
                     /\ wanOutcome' = "returned"
    /\ UNCHANGED notWan

(* ---- face_fixing ---- *)

\* fidelity in tenths, and upscale factors, inside and outside their ranges
FidelityValues == {-1, 0, 7, 10, 11}
UpscaleValues == {0, 1, 2, 4}

\* Only the fidelity checked.
ParametersValidAnyUpscale(fidelity, upscale) == fidelity >= 0 /\ fidelity <= 10

\* `0.0 <= fidelity <= 1.0` and `upscale in (1, 2)`
ParametersValid(fidelity, upscale) ==
    /\ fidelity >= 0 /\ fidelity <= 10
    /\ upscale \in {1, 2}

NoFaceModels == {}
NoFaceCall ==
    [outcome |-> "none", fidelity |-> 7, upscale |-> 1, image |-> "none",
     applied |-> FALSE, error |-> "none", loaded |-> {}]

\* What fix_faces returns: the image, and the metadata's fields.
FaceReturn(fidelity, upscale, image, applied, error, loaded) ==
    [outcome |-> "returned", fidelity |-> fidelity, upscale |-> upscale,
     image |-> image, applied |-> applied, error |-> error, loaded |-> loaded]

FaceAtRest ==
    /\ faceInstance = 0
    /\ faceMade = 0
    /\ facePc = [t \in Threads |-> "idle"]
    /\ faceRet = [t \in Threads |-> 0]
    /\ faceModels = NoFaceModels
    /\ faceCall = NoFaceCall

IdleFace == FaceAtRest /\ faceBudget = 0

InitFace == FaceAtRest /\ faceBudget = MaxFaceCalls

\* get_face_fixer(): `if _face_fixer_instance is None`
FaceGetCheck(t) ==
    /\ facePc[t] = "idle"
    /\ faceBudget > 0
    /\ faceBudget' = faceBudget - 1
    /\ facePc' = [facePc EXCEPT ![t] = IF faceInstance = 0 THEN "construct"
                                       ELSE "return"]
    /\ faceRet' = [faceRet EXCEPT ![t] = 0]
    /\ UNCHANGED <<faceInstance, faceMade, faceModels, faceCall>>
    /\ UNCHANGED notFace

\* `_face_fixer_instance = FaceFixingPipeline(device=device)`
FaceGetConstruct(t) ==
    /\ facePc[t] = "construct"
    /\ faceMade' = faceMade + 1
    /\ faceInstance' = faceMade + 1
    /\ faceModels' = NoFaceModels
    /\ facePc' = [facePc EXCEPT ![t] = "return"]
    /\ UNCHANGED <<faceRet, faceCall, faceBudget>>
    /\ UNCHANGED notFace

\* `return _face_fixer_instance`
FaceGetReturn(t) ==
    /\ facePc[t] = "return"
    /\ faceRet' = [faceRet EXCEPT ![t] = faceInstance]
    /\ facePc' = [facePc EXCEPT ![t] = "idle"]
    /\ UNCHANGED <<faceInstance, faceMade, faceModels, faceCall, faceBudget>>
    /\ UNCHANGED notFace

\* fix_faces(image, fidelity, upscale) on the pipeline in the slot.  faces
\* is the number of faces the detector finds; the booleans tell whether each
\* model loads and each model call succeeds.
FaceFixFaces ==
    /\ faceInstance # 0
    /\ \A t \in Threads : facePc[t] = "idle"
    /\ faceBudget > 0
    /\ faceBudget' = faceBudget - 1
    /\ \E fidelity \in FidelityValues, upscale \in UpscaleValues :
          IF ~ParametersValid(fidelity, upscale)
          THEN \* ValueError, caught by the outer `except Exception`
               /\ faceCall' = FaceReturn(fidelity, upscale, "input", FALSE,
                                         "ValueError", {})
               /\ UNCHANGED faceModels
          ELSE \E detectorOK \in LibraryOutcomes("detector" \notin faceModels),
                  faces \in 0..1 :
               IF ~detectorOK
               THEN \* _load_face_detector re-raises
                    /\ faceCall' = FaceReturn(fidelity, upscale, "input", FALSE,
                                              "str(e)", {})
                    /\ UNCHANGED faceModels
               ELSE IF faces = 0
               THEN /\ faceCall' = FaceReturn(fidelity, upscale, "input", FALSE,
                                              "none",
                                              {"detector"} \ faceModels)
                    /\ faceModels' = faceModels \cup {"detector"}
               ELSE \E enhancerOK \in LibraryOutcomes("enhancer" \notin faceModels),
                       upsamplerOK \in LibraryOutcomes(upscale > 1 /\
                                           "upsampler" \notin faceModels) :
                    LET now == {"detector"}
                               \cup (IF enhancerOK THEN {"enhancer"} ELSE {})
                               \cup (IF upscale > 1 /\ upsamplerOK
                                     THEN {"upsampler"} ELSE {})
                    IN /\ faceCall' = FaceReturn(fidelity, upscale, "enhanced",
                                                 TRUE, "none", now \ faceModels)
                       /\ faceModels' = faceModels \cup now
    /\ UNCHANGED <<faceInstance, faceMade, facePc, faceRet>>
    /\ UNCHANGED notFace

(* ---- specifications ---- *)

(* ---- vision_service ---- *)

\* Where /analyze takes the image from: a readable square image of the given
\* side, or a source load_image cannot read.
ImageSources == {256, 512, 1024, 0}

\* logits_per_image[0][0] of a CLIP forward pass that does not raise.
ClipLogits == {-12, -4, 0, 4, 8, 12}

\* max(0, min(100, (score + 10) * 5))
NormalizedScore(score) == Max(0, Min(100, (score + 10) * 5))

\* calculate_aesthetic_score of a square image, in thousandths:
\* 5.0 + (1 - ratio_score) * 2.5 + size_score * 2.5, clamped to [0, 10].
AestheticScore(side) ==
    LET size_score == Min(2500, (2500 * ((side * side) \div 1024)) \div 1024)
    IN Max(0, Min(10000, 5000 + 2500 + size_score))

\* calculate_clip_score once the models are loaded: the try block, and the
\* except branch that prints and returns 50.0.
ClipScore(fails, logit) ==
    IF fails
    THEN [score |-> FallbackScore, logged |-> TRUE]
    ELSE [score |-> NormalizedScore(logit), logged |-> FALSE]

\* generate_analysis: the overall sentence.
Analysis(alignment, aesthetic) ==
    IF alignment >= 70 /\ aesthetic >= 7000 THEN "excellent"
    ELSE IF alignment >= 50 /\ aesthetic >= 5000 THEN "good"
    ELSE "room for improvement"

NoVisionResponse ==
    [endpoint |-> "none", status |-> 0, alignment |-> 0, aesthetic |-> 0,
     analysis |-> "", clip |-> "none", logged |-> FALSE]

VisionError(endpoint, status) ==
    [NoVisionResponse EXCEPT !.endpoint = endpoint, !.status = status]

VisionAtRest == clipModel = FALSE /\ visionResponse = NoVisionResponse
IdleVision == VisionAtRest /\ visionBudget = 0
InitVision == VisionAtRest /\ visionBudget = MaxAnalyze

\* POST /analyze: load_image, calculate_clip_score (which loads the models
\* first, outside its try block), calculate_aesthetic_score,
\* generate_analysis.
VisionAnalyze ==
    /\ visionBudget > 0
    /\ visionBudget' = visionBudget - 1
    /\ \E image \in ImageSources, loadOK \in LibraryOutcomes(~clipModel),
          fails \in BOOLEAN, logit \in ClipLogits :
          IF image = 0
          THEN \* load_image raises HTTPException(400), passed on as it is
               /\ visionResponse' = VisionError("analyze", 400)
               /\ UNCHANGED clipModel
          ELSE IF ~clipModel /\ ~loadOK
          THEN \* load_models raises; /analyze answers 500
               /\ visionResponse' = VisionError("analyze", 500)
               /\ UNCHANGED clipModel
          ELSE LET r == ClipScore(fails, logit)
                   aesthetic == AestheticScore(image)
               IN /\ clipModel' = TRUE
                  /\ visionResponse' =
                        [endpoint |-> "analyze", status |-> 200,
                         alignment |-> r.score, aesthetic |-> aesthetic,
                         analysis |-> Analysis(r.score, aesthetic),
                         clip |-> IF fails THEN "raises" ELSE "ran",
                         logged |-> r.logged]
    /\ UNCHANGED notVision

\* POST /load
VisionLoad ==
    /\ visionBudget > 0
    /\ visionBudget' = visionBudget - 1
    /\ \E loadOK \in LibraryOutcomes(~clipModel) :
          IF clipModel \/ loadOK
          THEN /\ clipModel' = TRUE
               /\ visionResponse' = VisionError("load", 200)
          ELSE /\ UNCHANGED clipModel
               /\ visionResponse' = VisionError("load", 500)
    /\ UNCHANGED notVision

\* POST /unload
VisionUnload ==
    /\ visionBudget > 0
    /\ visionBudget' = visionBudget - 1
    /\ clipModel' = FALSE
    /\ visionResponse' =
          [VisionError("unload", 200) EXCEPT
              !.analysis = IF clipModel THEN "unloaded" ELSE "not_loaded"]
    /\ UNCHANGED notVision

IdleLLM == InitLLM /\ llamaInstalled /\ nGpuLayers = DefaultGpuLayers

\* The services a specification does not exercise.
IdleRemote == IdleModal /\ IdleWan /\ IdleFace /\ IdleVision

Init ==
    /\ InitLLM /\ nGpuLayers = DefaultGpuLayers
    /\ IdleEnc /\ IdleFlux /\ IdleVlm /\ IdleRemote
Next == NextLLM
Spec == Init /\ [][Next]_vars

InitEncOnly == InitEnc /\ IdleLLM /\ IdleFlux /\ IdleVlm /\ IdleRemote
NextEnc == CallLoadEncoder
SpecEnc == InitEncOnly /\ [][NextEnc]_vars

InitFluxOnly == InitFlux /\ IdleLLM /\ IdleEnc /\ IdleVlm /\ IdleRemote
NextFlux == FluxLoadPipeline \/ FluxUnloadPipeline
SpecFlux == InitFluxOnly /\ [][NextFlux]_vars

(* ---- llm_service with one caller and every configured N_GPU_LAYERS ---- *)

InitRetry ==
    /\ InitLLM /\ nGpuLayers \in (-1)..MaxLayers
    /\ IdleEnc /\ IdleFlux /\ IdleVlm /\ IdleRemote

NextRetry ==
    \/ CallLoad(1)
    \/ LoadFastPath(1)
    \/ LoadAcquire(1)
    \/ LoadRecheck(1)
    \/ TryLoadSucceeds(1)
    \/ TryLoadFails(1)
    \/ LoadReadMeta(1)
    \/ LoadReturn(1)
    \/ CallUnload(1)
    \/ UnloadCheck(1)
    \/ UnloadClose(1)
    \/ UnloadClear(1)

SpecRetry == InitRetry /\ [][NextRetry]_vars

(* ---- vlm_service: requests on the event loop ---- *)

InitVlmOnly == InitVlm /\ IdleLLM /\ IdleEnc /\ IdleFlux /\ IdleRemote
SpecVlm == InitVlmOnly /\ [][NextVlm]_vars

(* ---- the inference paths of vlm, diffusion and video service ---- *)

\* One of the three services receives calls in a run.
InitInference ==
    /\ IdleLLM /\ IdleEnc /\ IdleFlux /\ IdleFace /\ IdleVision
    /\ \/ InitVlm /\ IdleModal /\ IdleWan
       \/ IdleVlm /\ InitModal /\ IdleWan
       \/ IdleVlm /\ IdleModal /\ InitWan

NextInference ==
    \/ \E kind \in VlmKinds : VlmArrive(kind)
    \/ VlmDispatch
    \/ VlmCompareLoad
    \/ VlmCompareEncode
    \/ VlmInferBegin
    \/ VlmInferEnd
    \/ VlmHandleLoad
    \/ VlmHandleUnload
    \/ ModalGenerate
    \/ WanGenerate

SpecInference == InitInference /\ [][NextInference]_vars

(* ---- the diffusion and the video service: calls and HTTP requests ---- *)

\* One of the two services receives calls in a run.
InitRemote ==
    /\ IdleLLM /\ IdleEnc /\ IdleFlux /\ IdleVlm /\ IdleFace /\ IdleVision
    /\ \/ InitModal /\ IdleWan
       \/ IdleModal /\ InitWan

NextRemote ==
    \/ ModalGenerate
    \/ ModalEndpoint
    \/ ModalBatchItem
    \/ WanGenerate

SpecRemote == InitRemote /\ [][NextRemote]_vars

(* ---- face_fixing: concurrent get_face_fixer callers, fix_faces calls ---- *)

InitFaceOnly ==
    /\ IdleLLM /\ IdleEnc /\ IdleFlux /\ IdleVlm /\ IdleModal /\ IdleWan
    /\ IdleVision
    /\ InitFace

NextFace ==
    \/ \E t \in Threads : FaceGetCheck(t)
    \/ \E t \in Threads : FaceGetConstruct(t)
    \/ \E t \in Threads : FaceGetReturn(t)
    \/ FaceFixFaces

SpecFace == InitFaceOnly /\ [][NextFace]_vars

(* ---- flux_service: load, unload and load_multiple_loras ---- *)

InitLoras ==
    /\ IdleLLM /\ IdleEnc /\ IdleVlm /\ IdleRemote
    /\ fluxModelSource = "huggingface"
    /\ fluxCheckpoint = "complete"
    /\ fluxHubOK = TRUE
    /\ fluxEnv = [vae |-> "unset", clip |-> "unset", t5 |-> "unset"]
    /\ fluxLoraPath = "unset"
    /\ fluxPipeline = NoPipeline
    /\ fluxCurrentLora = NoLora
    /\ fluxOutcome = "none"
    /\ fluxUnloaded = "none"
    /\ fluxError = NoFluxError
    /\ fluxLog = <<>>
    /\ fluxRequireLocal = FALSE
    /\ FluxLorasAtRest
    /\ fluxLoraBudget = MaxLoraEntries
    /\ fluxOptionBudget = 0

NextLoras == FluxLoadPipeline \/ FluxUnloadPipeline \/ FluxLoadMultipleLoras

SpecLoras == InitLoras /\ [][NextLoras]_vars

\* load_multiple_loras calls on one pipeline, never unloaded
NextLoraCalls == FluxLoadPipeline \/ FluxLoadMultipleLoras

SpecLoraCalls == InitLoras /\ [][NextLoraCalls]_vars

(* ---- the lora loaders of flux_service and of the diffusion service ---- *)

\* flux_service once load_pipeline() and load_multiple_loras([]) have
\* returned and no further lora entry is to come.
FluxSettled ==
    /\ fluxModelSource = "huggingface"
    /\ fluxCheckpoint = "complete"
    /\ fluxHubOK = TRUE
    /\ fluxEnv = [vae |-> "unset", clip |-> "unset", t5 |-> "unset"]
    /\ fluxLoraPath = "unset"
    /\ fluxPipeline = FreshPipeline
    /\ fluxCurrentLora = NoLora
    /\ fluxOutcome = "returned"
    /\ fluxUnloaded = "none"
    /\ fluxError = NoFluxError
    /\ fluxLog = <<>>
    /\ fluxRequireLocal = FALSE
    /\ fluxCurrentLoras = <<>>
    /\ fluxLoraRequest = <<>>
    /\ fluxLoraReturn = LoraReturn("returned", <<>>)
    /\ fluxAdapterCalls = <<>>
    /\ fluxGenerated = [outcome |-> "none", loras |-> <<>>, active |-> {}]
    /\ fluxUnloadRun = <<>>
    /\ fluxFaceFixer = FALSE
    /\ fluxFaceInfo = NoFaceOutcome
    /\ fluxLoraBudget = 0
    /\ fluxOptionBudget = 0

\* One of the two services receives calls in a run.
InitAdapters ==
    \/ InitLoras
    \/ IdleLLM /\ IdleEnc /\ IdleVlm /\ FluxSettled /\ InitModal /\ IdleWan
          /\ IdleFace /\ IdleVision

NextAdapters ==
    \/ FluxLoadPipeline
    \/ FluxLoadMultipleLoras
    \/ ModalGenerate
    \/ ModalEndpoint
    \/ ModalBatchItem

SpecAdapters == InitAdapters /\ [][NextAdapters]_vars

(* ---- flux_service: /generate requests with and without loras ---- *)

FluxGenAtRest ==
    /\ IdleLLM /\ IdleEnc /\ IdleVlm /\ IdleRemote
    /\ fluxModelSource = "huggingface"
    /\ fluxCheckpoint = "complete"
    /\ fluxHubOK \in BOOLEAN
    /\ fluxEnv = [vae |-> "unset", clip |-> "unset", t5 |-> "unset"]
    /\ fluxLoraPath = "unset"
    /\ fluxPipeline = NoPipeline
    /\ fluxCurrentLora = NoLora
    /\ fluxOutcome = "none"
    /\ fluxUnloaded = "none"
    /\ fluxError = NoFluxError
    /\ fluxLog = <<>>
    /\ fluxRequireLocal = FALSE
    /\ FluxLorasAtRest

InitFluxGen == FluxGenAtRest /\ fluxLoraBudget = MaxGenEntries
    /\ fluxOptionBudget = 0

NextFluxGen == FluxLoadPipeline \/ FluxUnloadPipeline \/ FluxGenerate

SpecFluxGen == InitFluxGen /\ [][NextFluxGen]_vars

(* ---- unload in llm, vlm and flux service, one caller at a time ---- *)

\* flux_service loads from the hub; llm_service or vlm_service receives
\* the calls of a run.
InitUnload ==
    /\ IdleEnc /\ IdleRemote
    /\ InitFlux
    /\ fluxModelSource = "huggingface"
    /\ fluxCheckpoint = "complete"
    /\ fluxEnv = [vae |-> "unset", clip |-> "unset", t5 |-> "unset"]
    /\ fluxLoraPath = "unset"
    /\ nGpuLayers = DefaultGpuLayers
    /\ \/ InitLLM /\ IdleVlm
       \/ LLMAtRest /\ llamaInstalled /\ calls = MaxCalls /\ InitVlm

NextUnload == NextRetry \/ NextVlm \/ NextFlux

SpecUnload == InitUnload /\ [][NextUnload]_vars

(* ---- reading the trace of one load_model call ---- *)

EventsOf(tr, names) == SelectSeq(tr, LAMBDA e : e.ev \in names)

\* The attempts and cleanups of a call, in the order they ran.
AttemptCleanupOrder(tr) ==
    LET sel == EventsOf(tr, {"attempt", "cleanup"})
    IN [i \in 1..Len(sel) |-> sel[i].ev]

\* The kinds of the exceptions the attempts of a call raised, in order.
FailureKinds(tr) ==
    LET sel == EventsOf(tr, {"failed"})
    IN [i \in 1..Len(sel) |-> sel[i].kind]

\* The n_gpu_layers passed to each attempt of a call, in order.
AttemptLayers(tr) ==
    LET sel == EventsOf(tr, {"attempt"})
    IN [i \in 1..Len(sel) |-> sel[i].arg]

HasBuilt(tr) == \E i \in 1..Len(tr) : tr[i].ev = "built"

\* Layers resident on the GPU for a given n_gpu_layers: -1 is all of them.
GpuDemand(n) == IF n < 0 THEN MaxLayers + 1 ELSE n

(* ---- claims ---- *)

\* C1: when threads call load_model() concurrently on an unloaded slot and
\* no unload runs, exactly one instance is constructed and every caller
\* that returns, returns that instance.
C1_SingleConstruction ==
    ~unloadCalled =>
        /\ made <= 1
        /\ \A t \in Threads :
              (op[t] = "load" /\ outcome[t] = "returned") =>
                  (made = 1 /\ ret[t] = 1 /\ retOpen[t])

C1_Witness ==
    /\ ~unloadCalled
    /\ made = 1
    /\ \A t \in Threads : op[t] = "load" /\ outcome[t] = "returned" /\ ret[t] = 1
    /\ \E t \in Threads : via[t] = "built"
    /\ \E t \in Threads : via[t] = "recheck"

\* C2: at most one construction is in progress, and at most one
\* constructed instance has not been closed.
C2_AtMostOneInstance ==
    /\ Cardinality(Constructing) <= 1
    /\ Cardinality(Live) <= 1

\* C3 (as claimed): a thread that was waiting for the lock when its holder
\* failed receives that failure and makes no construction attempt itself.
C3_WaitersReceiveFailure ==
    \A t \in Threads :
        waitedOut[t] =>
            /\ attemptNo[t] = 0
            /\ outcome[t] = "raised" => raisedErr[t].who # t

\* C3 (amended): a thread that was waiting for the lock when its holder
\* failed is not handed that failure; if it raises, it raises the error of
\* a construction attempt it made itself after getting the lock.
C3_WaitersRetryThemselves ==
    \A t \in Threads :
        (waitedOut[t] /\ outcome[t] = "raised") =>
            /\ raisedErr[t].who = t
            /\ attemptNo[t] >= 1
            /\ raisedErr[t].n = attemptNo[t]

C3_Witness ==
    \E t \in Threads :
        /\ waitedOut[t]
        /\ outcome[t] = "raised"
        /\ attemptNo[t] >= 1
        /\ \E u \in Threads \ {t} : outcome[u] = "raised" /\ raisedErr[u].n > 0

\* C4: the close-and-clear step of unload_model() never runs while a thread
\* holds the load lock.
C4_UnloadExcludedFromLockedSection ==
    [][(\E u \in Threads : UnloadClose(u) \/ UnloadClear(u)) => lockHolder = 0]_vars

\* C5: two memory-exhaustion failures followed by a success make exactly
\* three attempts and two cleanups: attempt, cleanup, attempt, cleanup,
\* attempt.
C5_RetryThenDegrade ==
    \A t \in Threads :
        (FailureKinds(trace[t]) = <<"mem", "mem">> /\ HasBuilt(trace[t])) =>
            AttemptCleanupOrder(trace[t]) =
                <<"attempt", "cleanup", "attempt", "cleanup", "attempt">>

C5_Witness ==
    \E t \in Threads :
        /\ FailureKinds(trace[t]) = <<"mem", "mem">>
        /\ HasBuilt(trace[t])
        /\ outcome[t] = "returned"
        /\ via[t] = "built"

\* C6: the third attempt asks for strictly fewer GPU layers than the first
\* two, whatever N_GPU_LAYERS is configured.
C6_DegradedDemandLower ==
    \A t \in Threads :
        LET a == AttemptLayers(trace[t])
        IN Len(a) = 3 =>
              /\ GpuDemand(a[3]) < GpuDemand(a[1])
              /\ GpuDemand(a[3]) < GpuDemand(a[2])

\* C7: an attempt that fails with an error that is no memory-exhaustion
\* error is the last thing load_model does: no cleanup, no backoff, no
\* further attempt, and that error is the one raised.
C7_FatalErrorEndsLoad ==
    \A t \in Threads :
        \A i \in 1..Len(trace[t]) :
            (trace[t][i].ev = "failed" /\ trace[t][i].kind = "other") =>
                /\ i = Len(trace[t])
                /\ outcome[t] = "raised"
                /\ raisedErr[t].n = trace[t][i].arg

\* C8: when all three attempts fail, load_model raises the third attempt's
\* error, and that error carries the errors of attempts 2 and 1.
C8_ExhaustedRaisesLastWithHistory ==
    \A t \in Threads :
        LET k == FailureKinds(trace[t])
        IN Len(k) = 3 =>
              /\ outcome[t] = "raised"
              /\ raisedErr[t].who = t
              /\ raisedErr[t].n = 3
              /\ raisedErr[t].kind = k[3]
              /\ raisedErr[t].ctx = <<[n |-> 2, kind |-> k[2]],
                                      [n |-> 1, kind |-> k[1]]>>

C8_Witness ==
    \E t \in Threads :
        /\ Len(FailureKinds(trace[t])) = 3
        /\ outcome[t] = "raised"
        /\ raisedErr[t].n = 3

(* ---- reading a call of load_encoder_with_fallbacks ---- *)

\* The loaders of a configuration in the order they are to be tried: the
\* local loader (0) when the local path is set and exists, then the
\* fallback entries 1..n.
SourceOrder(config) ==
    (IF config.path \in {"bad", "good"} THEN <<0>> ELSE <<>>)
        \o [i \in 1..Len(config.chain) |-> i]

\* Whether the attempt on a source yields an encoder: for the local source
\* the loader and, when configured, the dtype conversion inside the same
\* try block; for a fallback entry the loader.
SourceSucceeds(config, src) ==
    IF src = 0
    THEN config.path = "good" /\ config.conv # "raises"
    ELSE config.chain[src]

IsPrefix(a, b) == Len(a) <= Len(b) /\ \A i \in 1..Len(a) : a[i] = b[i]

C10_LocalOnlyFailsOnPrimary ==
    (/\ fluxOutcome = "raised"
     /\ fluxRequireLocal
     /\ fluxEnv.vae \in {"missing", "bad"}) =>
        /\ \A i \in 1..Len(fluxLog) : fluxLog[i][2] = 0
        /\ fluxError.names = {"vae:local"}

\* The sources a call attempts: the local source (0) when a local path is
\* configured, then every fallback entry.
AttemptedSources(config) ==
    (IF config.path = "unset" THEN {} ELSE {0}) \cup 1..Len(config.chain)

\* Every attempted source fails: the local attempt does not complete and
\* every fallback loader raises.
AllSourcesFail(config) ==
    /\ AttemptedSources(config) # {}
    /\ config.path = "good" => config.conv = "raises"
    /\ \A i \in 1..Len(config.chain) : ~config.chain[i]

\* What the call reports about source src: an error leaving the call, or a
\* printed line, that names src together with a reason.
ReportsFailureOf(result, src) ==
    \/ result.raised # NoEncError
    \/ \E k \in 1..Len(result.printed) :
          /\ result.printed[k].src = src
          /\ result.printed[k].reason \in {"message", "class"}

\* C11 (as stated): when the local source and every fallback entry fail,
\* the call reports every attempted source together with its failure
\* reason.
C11_AggregateErrorListsAllSources ==
    (encPhase = "done" /\ AllSourcesFail(encConfig)) =>
        \A src \in AttemptedSources(encConfig) :
            ReportsFailureOf(encResult, src)

\* C11 (amended): when the local source and every fallback entry fail, no
\* error leaves the call and no aggregate is built; the failures are only
\* printed: the local one with its message, every fallback but the last
\* with its ordinal and exception class, and the last as a line that names
\* neither the entry nor a reason.
C11_FailuresOnlyPrinted ==
    (encPhase = "done" /\ AllSourcesFail(encConfig)) =>
        LET n == Len(encConfig.chain)
        IN /\ encResult.raised = NoEncError
           /\ encResult.printed =
                (IF encConfig.path = "unset" THEN <<>> ELSE <<LocalFailureLine>>)
                \o [i \in 1..n |->
                      IF i < n THEN [src |-> i, reason |-> "class"]
                      ELSE [src |-> -1, reason |-> "none"]]

C11_Witness ==
    /\ encPhase = "done"
    /\ encConfig.path = "bad"
    /\ encConfig.chain = <<FALSE, FALSE>>
    /\ Len(encResult.printed) = 3
    /\ encResult.raised = NoEncError

\* C12: when the local loader raises and every fallback loader raises, the
\* call returns None and no exception leaves it.
C12_AllRaiseReturnsNone ==
    (/\ encPhase = "done"
     /\ encConfig.path \in {"missing", "bad"}
     /\ \A i \in 1..Len(encConfig.chain) : ~encConfig.chain[i]) =>
        /\ encResult.encoder = NoEncoder
        /\ encResult.raised = NoEncError

C12_Witness ==
    /\ encPhase = "done"
    /\ encConfig.path = "bad"
    /\ encConfig.chain = <<FALSE, FALSE, FALSE>>
    /\ encResult.log = <<0, 1, 2, 3>>
    /\ encResult.encoder = NoEncoder

\* C13: with a dtype_converter configured, an encoder that the call returns
\* has gone through the converter, from whichever source it was loaded.
C13_ReturnedEncoderConverted ==
    (/\ encPhase = "done"
     /\ encConfig.conv # "none"
     /\ encResult.encoder # NoEncoder) =>
        encResult.encoder.converted

(* ---- reading unload calls, vlm requests and generate calls ---- *)

\* A row of unload calls reads as the claim says: each call answers true
\* when the slot held a model as it began and false when it did not, none
\* raises, each leaves the slot empty, and a second call in a row answers
\* false.
TrueThenFalse(run) ==
    /\ \A i \in 1..Len(run) :
          /\ run[i].ret = (IF run[i].was THEN "true" ELSE "false")
          /\ ~run[i].after
    /\ Len(run) = 2 => run[2].ret = "false"

LoadedThenEmpty ==
    <<UnloadEntry(TRUE, "true", FALSE), UnloadEntry(FALSE, "false", FALSE)>>

\* C14: in llm_service, vlm_service and flux_service, with one caller at a
\* time, unload answers true exactly when a model was loaded as the call
\* began and leaves the slot empty; the second of two unload calls in a row
\* answers false and raises nothing.
C14_UnloadTrueThenFalse ==
    /\ TrueThenFalse(unloadRun.done)
    /\ TrueThenFalse(vlmUnloadRun)
    /\ TrueThenFalse(fluxUnloadRun)

C14_Witness ==
    /\ unloadRun.done = LoadedThenEmpty
    /\ fluxUnloadRun = LoadedThenEmpty
    /\ llm = 0
    /\ ~fluxPipeline.up

C14_WitnessVlm ==
    /\ vlmUnloadRun = LoadedThenEmpty
    /\ vlmLlm = 0

\* Positions in the vlm trace.
VlmPos(ev, r) ==
    {k \in 1..Len(vlmTrace) : vlmTrace[k].ev \in ev /\ vlmTrace[k].req = r}
VlmInferred == {r \in VlmRequests : VlmPos({"infer_end", "infer_fail"}, r) # {}}
Before(a, b) == \A i \in a : \A j \in b : i < j

C18_ReloadAfterThreshold ==
    \A i \in 1..vlmMade :
        Cardinality({k \in 1..Len(vlmTrace) :
                        /\ vlmTrace[k].ev = "infer_begin"
                        /\ vlmTrace[k].inst = i}) <= ReloadThreshold + 1

\* The steps of one generate call: every pipeline pass is followed by a
\* cleanup.
CleanedUp(steps) ==
    \A i \in 1..Len(steps) :
        steps[i] \in {"infer_ok", "infer_fail"} =>
            \E j \in (i + 1)..Len(steps) : steps[j] = "cleanup"

C19_VlmCleansUp ==
    \A r \in VlmInferred :
        vlmReq[r].pc = "done" =>
            \E k \in VlmPos({"cleanup"}, r) :
                \A j \in VlmPos({"infer_end", "infer_fail"}, r) : j < k

C19_ModalCleansUp == modalOutcome # "none" => CleanedUp(modalTrace)

C19_WanCleansUp == wanOutcome # "none" => CleanedUp(wanTrace)

\* C19: once an inference call has run on the /compare path, in the
\* diffusion generate path or in the video generate path, memory cleanup
\* runs before the caller gets control back, whether the call succeeded or
\* failed.
C19_CleanupAfterEveryInference ==
    /\ C19_VlmCleansUp
    /\ C19_ModalCleansUp
    /\ C19_WanCleansUp

(* ---- reading a load_multiple_loras call ---- *)

\* A step in which load_multiple_loras took a request that names overlays
\* and returned.
LoraCallStep ==
    /\ fluxLoraBudget' < fluxLoraBudget
    /\ fluxLoraReturn'.outcome = "returned"

LoraProcessed == LimitToMaxLoras(fluxLoraRequest)
LoraLoaded == SelectSeq(fluxLoraReturn.entries, LAMBDA e : e.loaded)

\* One entry per processed overlay, in request order; an overlay whose file
\* is missing, wrongly formatted or fails to attach is marked loaded=false
\* with an error, and the overlays after it are still processed.
LoraAnnotated ==
    /\ Len(fluxLoraReturn.entries) = Len(LoraProcessed)
    /\ \A i \in 1..Len(LoraProcessed) :
          LET config == LoraProcessed[i]
              e == fluxLoraReturn.entries[i]
          IN /\ e.path = config.path
             /\ e.scale = config.scale
             /\ e.loaded \/ e.error # "none"
             /\ \/ ~LoraFileExists(config.path)
                \/ ~LoraIsSafetensors(config.path)
                \/ config.path = "broken.safetensors"
                => ~e.loaded
             /\ e.loaded =>
                   /\ e.adapter_name = AdapterName(i - 1, config.path)
                   /\ e.adapter_name \in fluxPipeline.attached

\* One set_adapters call, with the names and scales of the entries marked
\* loaded=true; once it returns, those are the active adapters.
LoraActivated ==
    /\ Len(fluxAdapterCalls) = 1
    /\ \A k \in 1..Len(fluxAdapterCalls) :
          /\ fluxAdapterCalls[k].names =
                [i \in 1..Len(LoraLoaded) |-> LoraLoaded[i].adapter_name]
          /\ fluxAdapterCalls[k].weights =
                [i \in 1..Len(LoraLoaded) |-> LoraLoaded[i].scale]
    /\ (\A k \in 1..Len(fluxAdapterCalls) : fluxAdapterCalls[k].ok) =>
          fluxPipeline.active =
              {<<LoraLoaded[i].adapter_name, LoraLoaded[i].scale>> :
                  i \in 1..Len(LoraLoaded)}

\* C20: load_multiple_loras returns one annotated entry per processed
\* overlay in request order, marks the overlays that are missing, wrongly
\* formatted or fail to attach as loaded=false with an error while it goes
\* on with the rest, and activates in one set_adapters call exactly the
\* names and scales of the entries marked loaded=true.
C20_AnnotatesAllActivatesLoaded ==
    [][LoraCallStep => (LoraAnnotated /\ LoraActivated)']_vars

\* The part of C20 about the returned entries alone.
LoraAlwaysAnnotated == [][LoraCallStep => LoraAnnotated']_vars

\* The part of C20 about set_adapters when some entry is marked loaded=true.
LoraActivatedWhenSomeLoaded ==
    [][LoraCallStep /\ LoraLoaded' # <<>> => LoraActivated']_vars

\* The adapter names the first MAX_LORAS entries of a request can get.
FirstNames(loras) ==
    {AdapterName(i - 1, loras[i].path) : i \in 1..MaxLoras}

\* C22: a load_multiple_loras call with more than MAX_LORAS overlays
\* processes exactly the first MAX_LORAS in request order: the returned list
\* has one entry for each of them and no other, and nothing is attached or
\* activated for the overlays after them.
C22_OnlyFirstMaxLorasProcessed ==
    [][LoraCallStep /\ Len(fluxLoraRequest') > MaxLoras =>
          /\ Len(fluxLoraReturn'.entries) = MaxLoras
          /\ \A i \in 1..MaxLoras :
                /\ fluxLoraReturn'.entries[i].path = fluxLoraRequest'[i].path
                /\ fluxLoraReturn'.entries[i].scale = fluxLoraRequest'[i].scale
          /\ fluxPipeline'.attached \subseteq
                fluxPipeline.attached \cup FirstNames(fluxLoraRequest')
          /\ \A k \in 1..Len(fluxAdapterCalls') :
                \A i \in 1..Len(fluxAdapterCalls'[k].names) :
                    fluxAdapterCalls'[k].names[i] \in FirstNames(fluxLoraRequest')
    ]_vars

C22_Witness ==
    /\ fluxPipeline.up
    /\ fluxLoraReturn.outcome = "returned"
    /\ Len(fluxLoraRequest) > MaxLoras
    /\ Len(fluxLoraReturn.entries) = MaxLoras
    /\ \A i \in 1..Len(fluxLoraRequest) :
          fluxLoraRequest[i].path = "style.safetensors"
    /\ \A i \in 1..MaxLoras : fluxLoraReturn.entries[i].loaded

\* C23: a /generate request whose lora list is empty or absent generates
\* with no adapter of an earlier request active.
C23_EmptyRequestRunsBare ==
    fluxGenerated.outcome = "returned" /\ fluxGenerated.loras = <<>> =>
        fluxGenerated.active = {}

\* A scale between 0.0 and 2.0, in tenths.
ScaleInRange(scale) == scale >= 0 /\ scale <= 20

\* C26: a request with a lora scale outside [0.0, 2.0] is rejected before
\* anything is attached or generated: no such request is served, and every
\* weight handed to set_adapters lies in the range.
C26_ScalesWithinRange ==
    /\ \A k \in 1..Len(fluxAdapterCalls) :
          \A i \in 1..Len(fluxAdapterCalls[k].weights) :
              ScaleInRange(fluxAdapterCalls[k].weights[i])
    /\ fluxGenerated.outcome = "returned" =>
          \A i \in 1..Len(fluxGenerated.loras) :
              ScaleInRange(fluxGenerated.loras[i].scale)

BadOverlay(config) ==
    ~LoraFileExists(config.path) \/ ~LoraIsSafetensors(config.path)

\* C21: _load_loras of the diffusion service does not raise for a bad
\* overlay: a call whose request names a missing file or a file that is not
\* .safetensors returns one entry per overlay, the bad ones marked
\* loaded=false with an error.
C21_BadOverlayNeverRaises ==
    /\ modalLoraCall.outcome # "none"
    /\ \E i \in 1..Len(modalLoraCall.request) :
          BadOverlay(modalLoraCall.request[i])
    => /\ modalLoraCall.outcome = "returned"
       /\ Len(modalLoraCall.entries) = Len(modalLoraCall.request)
       /\ \A i \in 1..Len(modalLoraCall.request) :
             BadOverlay(modalLoraCall.request[i]) =>
                 /\ ~modalLoraCall.entries[i].loaded
                 /\ modalLoraCall.entries[i].error # "none"

\* The names and scales of the entries marked loaded=true.
LoadedSet(entries) ==
    {<<entries[i].adapter_name, entries[i].scale>> :
        i \in {k \in 1..Len(entries) : entries[k].loaded}}

FluxActiveAllOrNothing ==
    LoraCallStep =>
        \/ fluxPipeline'.active = LoadedSet(fluxLoraReturn'.entries)
        \/ fluxPipeline'.active = fluxPipeline.active

ModalActiveAllOrNothing ==
    modalLoraCall.outcome = "returned" =>
        \/ modalAdapters.active = LoadedSet(modalLoraCall.entries)
        \/ modalAdapters.active = modalLoraCall.before

C24_WitnessFlux ==
    /\ fluxLoraReturn.outcome = "returned"
    /\ \E i, j \in 1..Len(fluxLoraReturn.entries) :
          fluxLoraReturn.entries[i].loaded /\ ~fluxLoraReturn.entries[j].loaded
    /\ fluxPipeline.active = LoadedSet(fluxLoraReturn.entries)
C24_WitnessKept ==
    /\ modalLoraCall.outcome = "returned"
    /\ modalLoraCall.entries # <<>>
    /\ modalLoraCall.before # {}
    /\ modalAdapters.active = modalLoraCall.before
    /\ modalAdapters.active # LoadedSet(modalLoraCall.entries)

\* A request reaches generate_endpoint.
EndpointCall ==
    /\ modalBatch = <<>>
    /\ modalRequest'.via \in {"single", "batch"}
    /\ modalBudget' # modalBudget \/ modalBatch' # modalBatch

OutOfRange(items) ==
    \E i \in 1..Len(items) :
        \E k \in 1..Len(items[i].loras) : ~ScaleInRange(items[i].loras[k].scale)

\* C25: a request to generate_endpoint with an out-of-range lora scale in
\* any of its items is rejected with pipeline, current_model, current_loras
\* and the adapters as they were and nothing loaded or generated; no item of
\* a batch runs unless every item of the batch is in range.
C25_InvalidRejectedBeforeWork ==
    /\ [][EndpointCall /\ OutOfRange(modalRequest'.items) =>
             /\ modalOutcome' = "rejected"
             /\ modalTrace' = <<>>
             /\ modalBatch' = <<>>
             /\ UNCHANGED <<modalPipeline, modalCurrentModel, modalCurrentLoras,
                            modalAdapters, modalRefiner, modalLoraCall,
                            modalServed>>]_vars
    /\ [](modalBatch # <<>> => ~OutOfRange(modalRequest.items))

C25_Witness ==
    /\ modalRequest.via = "batch"
    /\ Len(modalRequest.items) = 2
    /\ ~OutOfRange(<<modalRequest.items[1]>>)
    /\ OutOfRange(<<modalRequest.items[2]>>)
    /\ modalOutcome = "rejected"
    /\ modalBudget < MaxModalWork
    /\ modalPipeline = "flux-dev" /\ modalCurrentLoras = <<>>

\* C29: a resident pipeline is the one current_model names, and a request
\* is served by a pipeline built for the model it asks for.
C29_CurrentModelNamesPipeline ==
    /\ modalPipeline # "none" => modalCurrentModel = modalPipeline
    /\ modalServed.asked # "none" => modalServed.by = modalServed.asked

ReleasedFirst(steps) ==
    \A i, j \in 1..Len(steps) :
        steps[i] = "release" /\ steps[j] = "construct" => i < j

C30_WitnessWan ==
    /\ wanOutcome = "returned"
    /\ wanPipeline = "wan2.2-ti2v-5b"
    /\ wanPeak = 1
    /\ \E i \in 1..Len(wanTrace) :
          wanTrace[i] = "release" /\ wanTrace[i + 1] = "construct"

\* C27: fix_faces called with a fidelity outside [0.0, 1.0] or an upscale
\* other than 1 or 2 raises nothing: it returns the input image with
\* applied=false and an error in the metadata, and loads no model.
C27_InvalidParametersReturnInput ==
    /\ faceCall.outcome # "none"
    /\ \/ faceCall.fidelity < 0 \/ faceCall.fidelity > 10
       \/ faceCall.upscale \notin {1, 2}
    => /\ faceCall.outcome = "returned"
       /\ faceCall.image = "input"
       /\ ~faceCall.applied
       /\ faceCall.error # "none"
       /\ faceCall.loaded = {}

C27_Witness ==
    /\ faceCall.outcome = "returned"
    /\ faceCall.fidelity = 7 /\ faceCall.upscale = 4
    /\ faceCall.image = "input" /\ ~faceCall.applied
    /\ faceModels = {}

\* C28: every get_face_fixer call returns the same instance, and at most
\* one FaceFixingPipeline is constructed, however the callers interleave.
C28_OneFaceFixer ==
    /\ faceMade <= 1
    /\ \A t, u \in Threads :
          faceRet[t] # 0 /\ faceRet[u] # 0 => faceRet[t] = faceRet[u]

(* ---- llm_service: what load_model hands back, and what a failure leaves ---- *)

\* C32: a load_model() call that returns, returns a constructed instance
\* that is not closed at the moment of the return, never None, whatever
\* unload_model() calls run beside it.
C32_ReturnsOpenModel ==
    \A t \in Threads :
        (op[t] = "load" /\ outcome[t] = "returned") =>
            (ret[t] # 0 /\ retOpen[t])

\* C33: the step in which load_model() raises leaves llm None and the load
\* lock free, and every call that gets past the re-check begins with
\* attempt 1 at the configured layer count.
C33_RaiseLeavesSlotEmpty ==
    [][\A t \in Threads :
          /\ (op[t] = "load" /\ outcome[t] # "raised" /\ outcome'[t] = "raised")
                => (llm' = 0 /\ lockHolder' = 0)
          /\ (pc[t] = "l_recheck" /\ pc'[t] = "l_in")
                => (attemptNo'[t] = 1 /\ trace'[t] = <<Attempt(nGpuLayers)>>)
      ]_vars

\* A load that raised after three attempts, and another thread that is in
\* its own first attempt with the slot still empty.
C33_Witness ==
    \E t \in Threads :
        /\ op[t] = "load"
        /\ pc[t] = "l_in"
        /\ attemptNo[t] = 1
        /\ lockHolder = t
        /\ llm = 0
        /\ \E u \in Threads \ {t} :
              op[u] = "load" /\ outcome[u] = "raised" /\ raisedErr[u].n = 3

(* ---- vision_service: requests ---- *)

InitVisionOnly ==
    /\ IdleLLM /\ IdleEnc /\ IdleFlux /\ IdleVlm /\ IdleModal /\ IdleWan
    /\ IdleFace
    /\ InitVision

NextVision == VisionAnalyze \/ VisionLoad \/ VisionUnload

SpecVision == InitVisionOnly /\ [][NextVision]_vars

\* C31: an /analyze request whose CLIP forward pass fails is answered with
\* an error, not with a score.
C31_ClipFailureIsAnError ==
    (visionResponse.endpoint = "analyze" /\ visionResponse.clip = "raises")
        => visionResponse.status # 200

(* ---- overlay bookkeeping of flux_service and of the diffusion service ---- *)

\* C34: while a pipeline is resident, the overlays current_loras records as
\* loaded are exactly the adapters active on it, and every one of them is
\* attached to it; in flux_service and in the diffusion service alike.
C34_BookkeepingMatchesPipeline ==
    /\ fluxPipeline.up =>
          /\ LoadedSet(fluxCurrentLoras) = fluxPipeline.active
          /\ {a[1] : a \in fluxPipeline.active} \subseteq fluxPipeline.attached
    /\ modalPipeline # "none" =>
          /\ LoadedSet(modalCurrentLoras) = modalAdapters.active
          /\ {a[1] : a \in modalAdapters.active} \subseteq modalAdapters.attached

(* ---- flux_service: /generate requests whose overlays all attach ---- *)

InitAccumulate == FluxGenAtRest /\ fluxLoraBudget = MaxStyleEntries
    /\ fluxOptionBudget = 0

NextAccumulate == FluxLoadPipeline \/ FluxUnloadPipeline \/ FluxGenerateStyles

SpecAccumulate == InitAccumulate /\ [][NextAccumulate]_vars

\* C35: a resident pipeline never has more than MAX_LORAS adapters
\* attached, in flux_service and in the diffusion service.
C35_AttachedWithinMaxLoras ==
    /\ Cardinality(fluxPipeline.attached) <= MaxLoras
    /\ Cardinality(modalAdapters.attached) <= MaxLoras

(* ---- diffusion service with a custom SDXL model ---- *)

InitRefiner ==
    /\ IdleLLM /\ IdleEnc /\ IdleFlux /\ IdleVlm /\ IdleWan /\ IdleFace
    /\ IdleVision
    /\ ModalAtRest
    /\ modalCustomModels = {CustomModel}
    /\ modalFaceFixer = "get_face_fixer"
    /\ modalFaceBudget = 0
    /\ modalBudget = MaxRefinerWork

NextRefiner == ModalGenerate \/ ModalEndpoint \/ ModalBatchItem

SpecRefiner == InitRefiner /\ [][NextRefiner]_vars

\* C36: the refiner pipeline a generate call runs its second pass on is the
\* one _load_refiner_pipeline derives from the configuration of the base
\* model that served the call.
C36_RefinerOfCurrentModel ==
    modalServed.refiner # "none" =>
        modalServed.refiner = RefinerOf(modalServed.by)

(* ---- flux_service: /generate requests with optional fields ---- *)

InitFluxRequest ==
    /\ IdleLLM /\ IdleEnc /\ IdleVlm /\ IdleRemote
    /\ fluxModelSource = "huggingface"
    /\ fluxCheckpoint = "complete"
    /\ fluxHubOK = TRUE
    /\ fluxEnv = [vae |-> "unset", clip |-> "unset", t5 |-> "unset"]
    /\ fluxLoraPath \in {"unset", "good"}
    /\ fluxPipeline = NoPipeline
    /\ fluxCurrentLora = NoLora
    /\ fluxOutcome = "none"
    /\ fluxUnloaded = "none"
    /\ fluxError = NoFluxError
    /\ fluxLog = <<>>
    /\ fluxRequireLocal = FALSE
    /\ FluxLorasAtRest
    /\ fluxLoraBudget = 1
    /\ fluxOptionBudget = MaxOptionRequests

NextFluxRequest == FluxLoadPipeline \/ FluxUnloadPipeline \/ FluxGenerate

SpecFluxRequest == InitFluxRequest /\ [][NextFluxRequest]_vars

\* C37: a /generate request served by a resident pipeline, whether it
\* returns or ends in an error, leaves pipe.scheduler and
\* current_lora['scale'] as they were before it.
C37_RequestRestoresOverrides ==
    [][(FluxGenerate /\ fluxPipeline.up) =>
          /\ fluxPipeline'.scheduler = fluxPipeline.scheduler
          /\ fluxCurrentLora'.scale = fluxCurrentLora.scale]_vars

(* ---- face fixing asked of /generate and of the diffusion service ---- *)

InitFaceFix ==
    \/ InitFluxRequest
    \/ /\ IdleLLM /\ IdleEnc /\ IdleFlux /\ IdleVlm /\ IdleWan /\ IdleFace
       /\ IdleVision
       /\ ModalAtRest
       /\ modalCustomModels = {}
       \* load_model: `from face_fixing import get_face_fixer` raised or not
       /\ modalFaceFixer \in {"none", "get_face_fixer"}
       /\ modalFaceBudget = MaxOptionRequests
       /\ modalBudget = MaxFaceWork

NextFaceFix ==
    \/ FluxLoadPipeline \/ FluxUnloadPipeline \/ FluxGenerate
    \/ ModalGenerate \/ ModalEndpoint \/ ModalBatchItem

SpecFaceFix == InitFaceFix /\ [][NextFaceFix]_vars

FaceFailureReported(face) ==
    (face.asked /\ ~face.fixed) =>
        /\ face.info.present
        /\ ~face.info.applied
        /\ face.info.error # "none"

\* C38: a response of /generate or of the diffusion service's generate to
\* a request with fix_faces whose image is not the fixed one carries
\* face_fixing metadata with applied false and an error.
C38_FaceFixFailureReported ==
    /\ FaceFailureReported(fluxFaceInfo)
    /\ (modalOutcome = "returned" => FaceFailureReported(modalServed.face))

====
